---- MODULE Spec2Model ----
(***************************************************************************)
(* A model of the snow-discovery-agent: the ServiceNow transport client    *)
(* (client.py, exceptions.py), the server state (server.py) and the tool   *)
(* layer (tools/*.py, models.py).                                          *)
(*                                                                         *)
(* Python values are tagged: a str is Str(s), a bool is Bool(b), an int is *)
(* Int(n) and None (JSON null) is Null, so that a field that may hold      *)
(* values of several Python types can be compared.                         *)
(***************************************************************************)
EXTENDS Integers, Sequences, FiniteSets, TLC

VARIABLES
    client,        \* server._client: TRUE when a ServiceNowClient is set
    config_error,  \* server._config_error: Null or Str(text)
    config,        \* server._config: TRUE when a configuration is set
    pc,            \* "idle", or "called" while a tool invocation is running
    inv,           \* arguments of the running / last tool invocation
    sent,          \* transport requests issued by that invocation, in order
    upstream,      \* what the transport answered to that invocation
    resp,          \* envelope the invocation returned
    http           \* one ServiceNowClient call: method, attempts, outcome

vars == <<client, config_error, config, pc, inv, sent, upstream, resp, http>>

toolVars == <<pc, inv, sent, upstream, resp>>
serverVars == <<client, config_error, config>>

-----------------------------------------------------------------------------
(* Python values *)

Null == [t |-> "null"]
Str(s) == [t |-> "str", s |-> s]
Bool(b) == [t |-> "bool", b |-> b]
IntV(n) == [t |-> "int", n |-> n]

IsStr(v) == v.t = "str"
IsNull(v) == v.t = "null"

-----------------------------------------------------------------------------
(* str methods *)

UpperChars == "ABCDEFGHIJKLMNOPQRSTUVWXYZ"
LowerChars == "abcdefghijklmnopqrstuvwxyz"
HexChars == "0123456789abcdefABCDEF"
Digits == "0123456789"

CharAt(s, i) == SubSeq(s, i, i)

IndexIn(c, alphabet) ==
    IF \E i \in 1..Len(alphabet) : CharAt(alphabet, i) = c
    THEN CHOOSE i \in 1..Len(alphabet) : CharAt(alphabet, i) = c
    ELSE 0

LowerChar(c) ==
    IF IndexIn(c, UpperChars) > 0 THEN CharAt(LowerChars, IndexIn(c, UpperChars)) ELSE c

RECURSIVE lower(_)
lower(s) ==
    IF s = "" THEN ""
    ELSE IF Len(s) = 1 THEN LowerChar(Head(s))
    ELSE lower(SubSeq(s, 1, Len(s) \div 2)) \o lower(SubSeq(s, Len(s) \div 2 + 1, Len(s)))

IsSpace(c) == c \in {" ", "\t", "\n", "\r"}

RECURSIVE lstrip(_)
lstrip(s) == IF s # "" /\ IsSpace(Head(s)) THEN lstrip(Tail(s)) ELSE s

RECURSIVE rstrip(_)
rstrip(s) ==
    IF s # "" /\ IsSpace(CharAt(s, Len(s))) THEN rstrip(SubSeq(s, 1, Len(s) - 1)) ELSE s

strip(s) == rstrip(lstrip(s))

\* Python's `pat in s`
Contains(s, pat) ==
    \E i \in 1..(Len(s) - Len(pat) + 1) : SubSeq(s, i, i + Len(pat) - 1) = pat

startswith(s, pat) == Len(s) >= Len(pat) /\ SubSeq(s, 1, Len(pat)) = pat

\* str(b).lower() of a Python bool
BoolText(b) == IF b THEN "true" ELSE "false"

-----------------------------------------------------------------------------
(* tools/credentials.py, tools/utils.py: identifiers *)

\* re.compile(r"^[0-9a-fA-F]{32}$").match(s); `$` also matches before one
\* trailing newline.
SYS_ID_LEN == 32

AllHex(s) == \A i \in 1..Len(s) : IndexIn(CharAt(s, i), HexChars) > 0

\* mutant: the pattern checks the length only
SysIdPatternMatchLenOnly(s) == Len(s) = SYS_ID_LEN

SysIdPatternMatch(s) ==
    \/ Len(s) = SYS_ID_LEN /\ AllHex(s)
    \/ /\ Len(s) = SYS_ID_LEN + 1
       /\ CharAt(s, Len(s)) = "\n"
       /\ AllHex(SubSeq(s, 1, SYS_ID_LEN))

\* _validate_sys_id: [ok |-> TRUE, id |-> stripped] or [ok |-> FALSE, msg |-> text]
validate_sys_id(sys_id, label) ==
    IF IsNull(sys_id) \/ (IsStr(sys_id) /\ strip(sys_id.s) = "")
    THEN [ok |-> FALSE, msg |-> label \o " is required"]
    ELSE IF ~SysIdPatternMatch(strip(sys_id.s))
         THEN [ok |-> FALSE,
               msg |-> "Invalid " \o label \o " format: '" \o strip(sys_id.s) \o "'"]
         ELSE [ok |-> TRUE, id |-> strip(sys_id.s)]

-----------------------------------------------------------------------------
(* exceptions.py: the taxonomy *)

\* kind -> (error_code, default status)
ErrorKinds == {"Auth", "Permission", "NotFound", "RateLimit", "API", "Connection", "Base"}

error_code(kind) ==
    CASE kind = "Auth" -> "AUTHENTICATION_ERROR"
      [] kind = "Permission" -> "PERMISSION_ERROR"
      [] kind = "NotFound" -> "NOT_FOUND"
      [] kind = "RateLimit" -> "RATE_LIMIT_ERROR"
      [] kind = "API" -> "SERVICENOW_API_ERROR"
      [] kind = "Connection" -> "CONNECTION_ERROR"
      [] OTHER -> "SERVICENOW_ERROR"

-----------------------------------------------------------------------------
(* tools/utils.py: the envelope *)

NoData == [kind |-> "none"]
RecordData(r) == [kind |-> "record", rec |-> r]
ListData(rs) == [kind |-> "list", items |-> rs]

make_response(success, data, message, action, error) ==
    [success |-> success, data |-> data, message |-> message,
     action |-> action, error |-> error]

Failure(action, message, code) ==
    make_response(FALSE, NoData, message, action, Str(code))

NoResp == make_response(FALSE, NoData, "", "", Null)
NoInv == [tool |-> "none"]

-----------------------------------------------------------------------------
(* client.py: the transport client *)

DEFAULT_MAX_RETRIES == 3

\* _RETRY_STATUS_CODES
RETRY_STATUS_CODES == {502, 503, 504}

\* urllib3's Retry.RETRY_AFTER_STATUS_CODES, honoured because _create_session
\* leaves respect_retry_after_header at its default (True)
RETRY_AFTER_STATUS_CODES == {413, 429, 503}

Methods == {"GET", "POST", "PUT", "PATCH", "DELETE"}

\* the statuses the modelled instance answers with
Statuses == {200, 204, 304, 400, 401, 403, 404, 429, 500, 502, 503, 504}

\* Retry-After header of a response: absent (Null) or its text
RetryAfterValues == {Null, Str("60"), Str("")}

\* bodies: {"result": ...}, {"error": {"message": m}}, {"error": m},
\* a JSON array, text that is not JSON, nothing
BodyKinds == {"json_result", "json_error", "json_error_str", "json_array", "text", "empty"}

\* requests exceptions raised by Session.request
NetExceptions == {"Timeout", "ConnectionError", "InvalidURL"}

Response(status, retry_after, body) ==
    [net |-> FALSE, status |-> status, retry_after |-> retry_after, body |-> body]

NetFailure(exc) == [net |-> TRUE, exc |-> exc]

Responses ==
    {Response(st, ra, b) : st \in Statuses, ra \in RetryAfterValues, b \in BodyKinds}

\* the Retry-After header is only varied on the statuses that send one
ModelledResponses ==
    {r \in Responses : /\ ~IsNull(r.retry_after) => r.status \in {429, 503}
                       /\ r.retry_after = Str("") => r.status = 429}

\* response.text of each body kind
BodyText(body) ==
    CASE body = "json_result" -> "{\"result\": {}}"
      [] body = "json_error" -> "{\"error\": {\"message\": \"denied\"}}"
      [] body = "json_error_str" -> "{\"error\": \"denied\"}"
      [] body = "json_array" -> "[]"
      [] body = "text" -> "<html>Bad Gateway</html>"
      [] OTHER -> ""

MAX_DETAIL_LEN == 500

Truncate(text, n) == IF Len(text) <= n THEN text ELSE SubSeq(text, 1, n)

\* the try/except of _raise_for_status that extracts detail_msg
DetailMsg(body) ==
    CASE body = "json_result" -> ""
      [] body = "json_error" -> "denied"
      [] body = "json_error_str" -> "denied"
      [] OTHER -> Truncate(BodyText(body), MAX_DETAIL_LEN)

\* mutant: every response below 500 passes the status check
ResponseOkBelow500(status) == status < 500

\* requests.Response.ok: raise_for_status() raises for 400 <= status < 600
ResponseOk(status) == ~(400 <= status /\ status < 600)

RaisedError(kind, status_code, message, details) ==
    [raised |-> TRUE, kind |-> kind, error_code |-> error_code(kind),
     status_code |-> status_code, message |-> message, details |-> details]

NotRaised == [raised |-> FALSE]

BaseDetails(method) ==
    [k \in {"url", "method"} |-> IF k = "url" THEN Str("https://instance/api/now/table/t")
                                 ELSE Str(method)]

WithRetryAfter(details, retry_after) ==
    [k \in DOMAIN details \cup {"retry_after"} |->
        IF k = "retry_after" THEN retry_after ELSE details[k]]

\* mutant: 404 is reported as a generic API error
StatusKindNo404(status) ==
    CASE status = 401 -> "Auth"
      [] status = 403 -> "Permission"
      [] status = 429 -> "RateLimit"
      [] OTHER -> "API"

\* the if/elif chain of _raise_for_status
StatusKind(status) ==
    CASE status = 401 -> "Auth"
      [] status = 403 -> "Permission"
      [] status = 404 -> "NotFound"
      [] status = 429 -> "RateLimit"
      [] status >= 500 -> "API"
      [] OTHER -> "API"

\* mutant: the header is stored even when it is absent
RateLimitDetailsAlways(method, retry_after) ==
    WithRetryAfter(BaseDetails(method), retry_after)

RateLimitDetails(method, retry_after) ==
    IF ~IsNull(retry_after)
    THEN WithRetryAfter(BaseDetails(method), retry_after)
    ELSE BaseDetails(method)

_raise_for_status(response, method) ==
    IF ResponseOk(response.status) THEN NotRaised
    ELSE LET status == response.status
             detail_msg == DetailMsg(response.body)
             base_msg == IF detail_msg # ""
                         THEN "HTTP " \o ToString(status) \o ": " \o detail_msg
                         ELSE "HTTP " \o ToString(status)
             details == IF status = 429
                        THEN RateLimitDetails(method, response.retry_after)
                        ELSE BaseDetails(method)
         IN  RaisedError(StatusKind(status), IntV(status), base_msg, details)

\* mutant: a connection failure keeps no trace of the original error
ConnectionDetailsEmpty(exc) == [k \in {} |-> Null]

ConnectionDetails(exc) == [k \in {"original_error"} |-> Str(exc)]

\* _handle_request_exception: always raises ServiceNowConnectionError
_handle_request_exception(exc) ==
    LET prefix == CASE exc = "Timeout" -> "Request timed out: "
                    [] exc = "ConnectionError" -> "Connection failed: "
                    [] OTHER -> "Request failed: "
    IN  RaisedError("Connection", Null, prefix \o exc, ConnectionDetails(exc))

\* _extract_result: the value of "result", or the error it raises
_extract_result(response) ==
    CASE response.body \in {"text", "empty"} ->
            [kind |-> "error",
             err |-> RaisedError("API", IntV(response.status),
                                 "Invalid JSON in response",
                                 [k \in {"response_text"} |->
                                     Str(Truncate(BodyText(response.body), MAX_DETAIL_LEN))])]
      [] response.body = "json_array" ->
            \* body.get on a list
            [kind |-> "raw_exception", exc |-> "AttributeError"]
      [] OTHER -> [kind |-> "result", value |-> response.body]

\* what get/post/put/patch/delete do with the response _request returned
Finish(method, response) ==
    LET raised == _raise_for_status(response, method)
    IN  IF raised.raised THEN [kind |-> "error", err |-> raised]
        ELSE IF method = "DELETE" THEN [kind |-> "result", value |-> "True"]
        ELSE _extract_result(response)

\* the client before and between calls
NoOutcome == [kind |-> "none"]

HttpIdle == [pc |-> "idle", method |-> "GET", trace |-> <<>>, outcome |-> NoOutcome]

-----------------------------------------------------------------------------
(* server.py: the server state *)

\* what get_config() / create_client() can do at start-up
InitOutcomes == {"ok", "config_fails", "client_fails"}

\* _init_server
InitServer(outcome) ==
    /\ pc = "idle"
    /\ IF outcome = "config_fails"
       THEN /\ config_error' = Str("configuration missing")
            /\ UNCHANGED <<config, client>>
       ELSE /\ config' = TRUE
            /\ IF outcome = "ok"
               THEN client' = TRUE /\ UNCHANGED config_error
               ELSE /\ config_error' = Str("Client creation failed: boom")
                    /\ UNCHANGED client
    /\ UNCHANGED <<toolVars, http>>

\* get_client: the client, or the ServiceNowError it raises
get_client ==
    IF ~client
    THEN [ok |-> FALSE,
          err |-> [RaisedError("Base", Null,
                      IF IsStr(config_error) /\ config_error.s # ""
                      THEN config_error.s
                      ELSE "ServiceNow client not initialized -- check configuration",
                      [k \in {} |-> Null])
                   EXCEPT !.error_code = "CLIENT_NOT_CONFIGURED"]]
    ELSE [ok |-> TRUE]

\* module state of server.py before _init_server has run
ServerInit ==
    /\ client = FALSE
    /\ config = FALSE
    /\ config_error = Null

-----------------------------------------------------------------------------
(* The tool layer: how a handler's run is described *)

\* a transport request issued through the client
Req(method, table, id, body) ==
    [method |-> method, table |-> table, id |-> id, body |-> body]

NoBody == [k \in {} |-> Null]

\* what a client method answered: a value, or a taxonomy error it raised
Ok(value) == [ok |-> TRUE, value |-> value]
Raises(kind) == [ok |-> FALSE, err |-> RaisedError(kind, Null, "transport: " \o kind, NoBody)]

\* how the body of a tool's try block ends
Return(envelope) == [how |-> "return", resp |-> envelope]
RaiseValueError(msg) == [how |-> "ValueError", msg |-> msg]
RaiseServiceNow(err) == [how |-> "ServiceNowError", err |-> err]
\* an exception that is neither a ValueError nor of the taxonomy
RaiseOther(exc, text) == [how |-> "other", exc |-> exc, text |-> text]

\* what the caller of a tool function gets when an exception leaves it: no
\* envelope, the exception
Propagated(exc, text) == [raised |-> exc, text |-> text]

Run(requests, end) == [sent |-> requests, end |-> end]

\* mutant: a ValueError is reported like an API error
ExceptClausesNoValidation(action, end) ==
    CASE end.how = "return" -> end.resp
      [] end.how = "ValueError" -> Failure(action, end.msg, "SERVICENOW_API_ERROR")
      [] end.how = "other" -> Propagated(end.exc, end.text)
      [] OTHER -> Failure(action, end.err.message, end.err.error_code)

\* mutant: every error of the taxonomy is reported with the code of the
\* base kind
ExceptClausesBaseCode(action, end) ==
    CASE end.how = "return" -> end.resp
      [] end.how = "ValueError" -> Failure(action, end.msg, "VALIDATION_ERROR")
      [] end.how = "other" -> Propagated(end.exc, end.text)
      [] OTHER -> Failure(action, end.err.message, "SERVICENOW_ERROR")

\* the except clauses every tool function ends with: ValueError, then
\* ServiceNowNotFoundError and ServiceNowError; any other exception leaves
\* the function
ExceptClauses(action, end) ==
    CASE end.how = "return" -> end.resp
      [] end.how = "ValueError" -> Failure(action, end.msg, "VALIDATION_ERROR")
      [] end.how = "other" -> Propagated(end.exc, end.text)
      [] OTHER -> Failure(action, end.err.message, end.err.error_code)

\* the start of every tool function: action check, then get_client
\* (`body` is the run of the try block, used when a client is available)
ToolFunction(action, valid_actions, body) ==
    IF action \notin valid_actions
    THEN Run(<<>>, Failure(action, "Invalid action: '" \o action \o "'",
                           "INVALID_ACTION: " \o action))
    ELSE IF ~get_client.ok
         THEN Run(<<>>, Failure(action,
                            "ServiceNow client not available: " \o get_client.err.message,
                            get_client.err.error_code))
         ELSE Run(body.sent, ExceptClauses(action, body.end))

-----------------------------------------------------------------------------
(* models.py: coercions and the credential model *)

\* mutant: the texts are compared as they are, without value.lower()
_coerce_bool_as_written(value) ==
    CASE value.t = "bool" -> value.b
      [] value.t = "str" -> value.s \in {"true", "1", "yes"}
      [] value.t = "int" -> value.n # 0
      [] value.t = "list" -> value.items # <<>>
      [] OTHER -> FALSE

\* _coerce_bool: a bool as it is, a str by its text, and bool(value) for
\* anything else: a number is true unless it is 0, a list unless it is
\* empty, None is false
_coerce_bool(value) ==
    CASE value.t = "bool" -> value.b
      [] value.t = "str" -> lower(value.s) \in {"true", "1", "yes"}
      [] value.t = "int" -> value.n # 0
      [] value.t = "list" -> value.items # <<>>
      [] OTHER -> FALSE

IsDigits(s) == s # "" /\ \A i \in 1..Len(s) : IndexIn(CharAt(s, i), Digits) > 0

RECURSIVE DigitsValue(_)
DigitsValue(s) ==
    IF s = "" THEN 0
    ELSE 10 * DigitsValue(SubSeq(s, 1, Len(s) - 1)) + (IndexIn(CharAt(s, Len(s)), Digits) - 1)

\* int(text): [ok |-> TRUE, n |-> value] or [ok |-> FALSE]
ParseInt(text) ==
    LET body == IF text # "" /\ Head(text) \in {"+", "-"} THEN Tail(text) ELSE text
    IN  IF ~IsDigits(body) THEN [ok |-> FALSE]
        ELSE [ok |-> TRUE,
              n |-> IF Head(text) = "-" THEN 0 - DigitsValue(body) ELSE DigitsValue(body)]

\* _coerce_int
_coerce_int(value, default) ==
    CASE value.t = "int" -> value.n
      [] value.t = "str" /\ strip(value.s) # "" ->
            IF ParseInt(strip(value.s)).ok THEN ParseInt(strip(value.s)).n ELSE default
      [] OTHER -> default

\* DiscoveryCredential: the declared fields, in declaration order
CredentialFields == <<"sys_id", "name", "type", "active", "tag", "order", "affinity">>

SeqRange(seq) == {seq[i] : i \in 1..Len(seq)}

CREDENTIAL_ORDER_DEFAULT == 100

\* the default of each DiscoveryCredential field
CredentialDefault(field) ==
    CASE field = "active" -> Bool(TRUE)
      [] field = "order" -> IntV(CREDENTIAL_ORDER_DEFAULT)
      [] OTHER -> Str("")

\* mutant: the model also declares a password field
CredentialFieldSetWithPassword == SeqRange(CredentialFields) \cup {"password"}

\* cls.model_fields.keys()
CredentialFieldSet == SeqRange(CredentialFields)

\* mutant: every key of the record is passed on to validation and kept
\* (a model configured with extra="allow")
from_snow_allow_extra(data) == data

\* SnowBaseModel.from_snow for a model without a field map: the declared
\* fields that the record has
from_snow(data) ==
    [attr \in (CredentialFieldSet \cap DOMAIN data) |-> data[attr]]

\* cls.model_validate(mapped) for DiscoveryCredential: the field validators,
\* str fields that only take str (stripped), defaults for missing fields
CredentialValid(mapped) ==
    \A attr \in DOMAIN mapped :
        attr \notin {"active", "order"} => IsStr(mapped[attr])

CredentialValidate(mapped) ==
    [attr \in (CredentialFieldSet \cup DOMAIN mapped) |->
        IF attr \notin DOMAIN mapped THEN CredentialDefault(attr)
        ELSE CASE attr = "active" -> Bool(_coerce_bool(mapped[attr]))
               [] attr = "order" ->
                     IntV(_coerce_int(mapped[attr], CREDENTIAL_ORDER_DEFAULT))
               [] OTHER -> Str(strip(mapped[attr].s))]

\* DiscoveryCredential.from_snow(record).model_dump(), or the ValidationError
\* (a ValueError) that validation raises
CredentialDump(record) ==
    LET mapped == from_snow(record)
    IN  IF CredentialValid(mapped)
        THEN [ok |-> TRUE, rec |-> CredentialValidate(mapped)]
        ELSE [ok |-> FALSE, msg |-> "1 validation error for DiscoveryCredential"]

-----------------------------------------------------------------------------
(* tools/credentials.py *)

CREDENTIAL_TABLE == "discovery_credential"

SAFE_FIELDS == <<"sys_id", "name", "type", "active", "tag", "order", "affinity">>

SECRET_FIELD_PATTERNS ==
    <<"password", "secret", "private_key", "ssh_private", "community", "passphrase",
      "token", "credential", "auth_key", "key_file", "pem", "cert_body">>

CredentialActions == {"list", "get", "create", "update", "delete"}

_is_secret_field(field_name) ==
    LET lowered == lower(field_name)
    IN  \E i \in 1..Len(SECRET_FIELD_PATTERNS) :
            Contains(lowered, SECRET_FIELD_PATTERNS[i])

\* keys a discovery_credential record may carry upstream, beyond SAFE_FIELDS
UpstreamExtraKeys ==
    {"password", "ssh_private_key", "community_string", "passphrase", "API_Token",
     "sys_updated_by"}

\* _is_secret_field of every key that occurs, evaluated once
SecretField == [k \in SeqRange(SAFE_FIELDS) \cup UpstreamExtraKeys |-> _is_secret_field(k)]

_strip_secrets(record) ==
    [key \in {k \in DOMAIN record : k \in SeqRange(SAFE_FIELDS) \/ ~SecretField[k]}
        |-> record[key]]

\* ",".join(fields) / "^".join(conditions)
RECURSIVE Join(_, _)
Join(sep, parts) ==
    IF Len(parts) = 0 THEN ""
    ELSE IF Len(parts) = 1 THEN parts[1]
    ELSE parts[1] \o sep \o Join(sep, Tail(parts))

\* a dict built key by key: `d` with key k set to v
Put(d, k, v) == [x \in DOMAIN d \cup {k} |-> IF x = k THEN v ELSE d[x]]

\* adds the key only when the condition holds
PutIf(cond, d, k, v) == IF cond THEN Put(d, k, v) ELSE d

\* mutant: ServiceNowClient.query_table builds ORDERBY for a leading '-'
OrderClauseAscendingOnly(order_by) == "ORDERBY" \o order_by

OrderClause(order_by) ==
    IF ~startswith(order_by, "-") THEN "ORDERBY" \o order_by
    ELSE "ORDERBYDESC" \o Tail(order_by)

\* ServiceNowClient.query_table: the params of its GET
QueryTableParams(query, fields, limit, offset, order_by) ==
    LET p0 == [k \in {"sysparm_limit", "sysparm_offset"} |->
                  IF k = "sysparm_limit" THEN Str(ToString(limit))
                  ELSE Str(ToString(offset))]
        p1 == PutIf(IsStr(query) /\ query.s # "", p0, "sysparm_query", query)
        p2 == PutIf(Len(fields) > 0, p1, "sysparm_fields", Str(Join(",", fields)))
    IN  IF IsStr(order_by) /\ order_by.s # ""
        THEN IF "sysparm_query" \in DOMAIN p2
             THEN Put(p2, "sysparm_query",
                      Str(p2["sysparm_query"].s \o "^" \o OrderClause(order_by.s)))
             ELSE Put(p2, "sysparm_query", Str(OrderClause(order_by.s)))
        ELSE p2

query_table(table, query, fields, limit, offset, order_by) ==
    Req("GET", table, Null, QueryTableParams(query, fields, limit, offset, order_by))

\* ServiceNowClient.get_table_record: the GET it sends
get_table_record(table, sys_id, fields) ==
    Req("GET", table, Str(sys_id),
        PutIf(Len(fields) > 0, NoBody, "sysparm_fields", Str(Join(",", fields))))

\* ServiceNowClient.get_table_record: what it makes of the answer of get
TableRecordAnswer(answer, table, sys_id) ==
    IF ~answer.ok THEN answer
    ELSE IF answer.value.kind = "record" THEN answer
    ELSE IF answer.value.kind = "list" /\ Len(answer.value.items) > 0
         THEN Ok(RecordData(answer.value.items[1]))
    ELSE [ok |-> FALSE,
          err |-> RaisedError("NotFound", IntV(404),
                              "Record not found: " \o table \o "/" \o sys_id, NoBody)]

Condition(cond, text) == IF cond THEN <<text>> ELSE <<>>

NotBlank(v) == IsStr(v) /\ strip(v.s) # ""

\* credentials._build_list_query
CredentialListQuery(credential_type, active, tag) ==
    LET conditions ==
            Condition(NotBlank(credential_type), "type=" \o strip(credential_type.s))
            \o Condition(~IsNull(active), "active=" \o BoolText(active.b))
            \o Condition(NotBlank(tag), "tag=" \o strip(tag.s))
    IN  IF Len(conditions) = 0 THEN Null ELSE Str(Join("^", conditions))

\* the sanitize / validate / dump steps shared by get, create and update
CredentialRecordReturn(action, record, verb, shown_id) ==
    LET dump == CredentialDump(_strip_secrets(record))
    IN  IF ~dump.ok THEN RaiseValueError(dump.msg)
        ELSE Return(make_response(TRUE, RecordData(dump.rec),
                        verb \o " credential '" \o dump.rec["name"].s \o "' ("
                             \o (IF shown_id = "" THEN dump.rec["sys_id"].s ELSE shown_id)
                             \o ")",
                        action, Null))

credentials_action_list(args, answer) ==
    LET request == query_table(CREDENTIAL_TABLE,
                       CredentialListQuery(args.filter_type, args.filter_active,
                                           args.filter_tag),
                       SAFE_FIELDS, args.limit, 0, Null)
        records == IF answer.value.kind = "list" THEN answer.value.items ELSE <<>>
        dumps == [i \in 1..Len(records) |-> CredentialDump(_strip_secrets(records[i]))]
    IN  IF ~answer.ok THEN Run(<<request>>, RaiseServiceNow(answer.err))
        ELSE IF \E i \in 1..Len(records) : ~dumps[i].ok
        THEN Run(<<request>>,
                 RaiseValueError(dumps[CHOOSE i \in 1..Len(records) : ~dumps[i].ok].msg))
        ELSE Run(<<request>>,
                 Return(make_response(TRUE,
                            ListData([i \in 1..Len(records) |-> dumps[i].rec]),
                            "Found " \o ToString(Len(records)) \o " credential(s)",
                            "list", Null)))

credentials_action_get(sys_id, answer) ==
    LET request == get_table_record(CREDENTIAL_TABLE, sys_id, SAFE_FIELDS)
        record == TableRecordAnswer(answer, CREDENTIAL_TABLE, sys_id)
    IN  IF ~record.ok THEN Run(<<request>>, RaiseServiceNow(record.err))
        ELSE Run(<<request>>,
                 CredentialRecordReturn("get", record.value.rec, "Retrieved", sys_id))

credentials_action_create(args, answer) ==
    IF ~NotBlank(args.name)
    THEN Run(<<>>, RaiseValueError("'name' is required for create action"))
    ELSE IF ~NotBlank(args.credential_type)
    THEN Run(<<>>, RaiseValueError("'credential_type' is required for create action"))
    ELSE
    LET d0 == [k \in {"name", "type"} |->
                  IF k = "name" THEN Str(strip(args.name.s))
                  ELSE Str(strip(args.credential_type.s))]
        d1 == PutIf(~IsNull(args.tag), d0, "tag", Str(strip(args.tag.s)))
        d2 == PutIf(~IsNull(args.order), d1, "order", Str(ToString(args.order.n)))
        data == Put(d2, "active",
                    IF ~IsNull(args.active) THEN Str(BoolText(args.active.b))
                    ELSE Str("true"))
        request == Req("POST", CREDENTIAL_TABLE, Null, data)
    IN  IF ~answer.ok THEN Run(<<request>>, RaiseServiceNow(answer.err))
        ELSE Run(<<request>>,
                 CredentialRecordReturn("create", answer.value.rec, "Created", ""))

credentials_action_update(sys_id, args, answer) ==
    LET d0 == PutIf(~IsNull(args.name), NoBody, "name", Str(strip(args.name.s)))
        d1 == PutIf(~IsNull(args.credential_type), d0, "type",
                    Str(strip(args.credential_type.s)))
        d2 == PutIf(~IsNull(args.tag), d1, "tag", Str(strip(args.tag.s)))
        d3 == PutIf(~IsNull(args.order), d2, "order", Str(ToString(args.order.n)))
        data == PutIf(~IsNull(args.active), d3, "active", Str(BoolText(args.active.b)))
        request == Req("PATCH", CREDENTIAL_TABLE, Str(sys_id), data)
    IN  IF DOMAIN data = {}
        THEN Run(<<>>, RaiseValueError("At least one field must be provided for update"))
        ELSE IF ~answer.ok THEN Run(<<request>>, RaiseServiceNow(answer.err))
        ELSE Run(<<request>>,
                 CredentialRecordReturn("update", answer.value.rec, "Updated", sys_id))

credentials_action_delete(sys_id, answer) ==
    LET request == Req("DELETE", CREDENTIAL_TABLE, Str(sys_id), NoBody)
    IN  IF ~answer.ok THEN Run(<<request>>, RaiseServiceNow(answer.err))
        ELSE Run(<<request>>,
                 Return(make_response(TRUE,
                            RecordData([k \in {"sys_id"} |-> Str(sys_id)]),
                            "Deleted credential (" \o sys_id \o ")", "delete", Null)))

\* an action that needs an identifier: validate it, then run the action
WithSysId(sys_id, label, run(_)) ==
    IF validate_sys_id(sys_id, label).ok
    THEN run(validate_sys_id(sys_id, label).id)
    ELSE Run(<<>>, RaiseValueError(validate_sys_id(sys_id, label).msg))

\* manage_discovery_credentials
manage_discovery_credentials(args, answer) ==
    LET action == lower(strip(args.action))
        get(id) == credentials_action_get(id, answer)
        update(id) == credentials_action_update(id, args, answer)
        delete(id) == credentials_action_delete(id, answer)
        body == CASE action = "list" -> credentials_action_list(args, answer)
                  [] action = "get" -> WithSysId(args.sys_id, "sys_id", get)
                  [] action = "create" -> credentials_action_create(args, answer)
                  [] action = "update" -> WithSysId(args.sys_id, "sys_id", update)
                  [] OTHER -> WithSysId(args.sys_id, "sys_id", delete)
    IN  ToolFunction(action, CredentialActions, body)

-----------------------------------------------------------------------------
(* Tool invocations: an MCP caller invokes a tool, the tool function runs *)

\* server.main: _init_server runs once, before any tool is served
Startup(outcome) ==
    /\ inv = NoInv
    /\ ~config
    /\ config_error = Null
    /\ InitServer(outcome)

\* the MCP caller invokes a tool with arguments `args`
Invoke(args) ==
    /\ pc = "idle"
    /\ pc' = "called"
    /\ inv' = args
    /\ sent' = <<>>
    /\ upstream' = <<>>
    /\ resp' = NoResp
    /\ UNCHANGED <<serverVars, http>>

\* the tool function returns `run.end` after issuing `run.sent`; `answers`
\* are the transport's answers to the requests it issued
Returns(run, answers) ==
    /\ pc' = "idle"
    /\ sent' = run.sent
    /\ upstream' = SubSeq(answers, 1, Len(run.sent))
    /\ resp' = run.end
    /\ UNCHANGED <<inv, serverVars, http>>

ToolInit ==
    /\ ServerInit
    /\ pc = "idle"
    /\ inv = NoInv
    /\ sent = <<>>
    /\ upstream = <<>>
    /\ resp = NoResp
    /\ http = HttpIdle

\* identifiers an MCP caller may pass
ValidId == "0123456789abcdef0123456789ABCDEF"

SysIdInputs ==
    {Null, Str(""), Str("   "), Str(ValidId), Str("  " \o ValidId \o "\n"),
     Str("invalid"), Str(SubSeq(ValidId, 1, 31)), Str(ValidId \o "0"),
     Str("g" \o SubSeq(ValidId, 2, 32))}

\* the taxonomy errors a client method may raise
TransportErrors == {Raises(kind) : kind \in ErrorKinds}

-----------------------------------------------------------------------------
(* manage_discovery_credentials: inputs, upstream answers, the action *)

MaxRecords == 2

CredentialArgs(action, sys_id, name, credential_type, tag, order, active,
               filter_type, filter_active) ==
    [tool |-> "credentials", action |-> action, sys_id |-> sys_id, name |-> name,
     credential_type |-> credential_type, tag |-> tag, order |-> order,
     active |-> active, filter_type |-> filter_type, filter_active |-> filter_active,
     filter_tag |-> Null, limit |-> 100]

CredentialInvocations ==
    {CredentialArgs("list", Null, Null, Null, Null, Null, Null, f[1], f[2]) :
        f \in {<<Null, Null>>, <<Str(" SSH "), Bool(TRUE)>>}}
    \cup {CredentialArgs(a, id, Null, Null, Null, Null, Null, Null, Null) :
        a \in {"get", " GET ", "delete", "rotate"}, id \in SysIdInputs}
    \cup {CredentialArgs("create", Null, n, ty, tg, o, ac, Null, Null) :
        n \in {Null, Str("  "), Str(" web01 ")}, ty \in {Null, Str("SSH")},
        tg \in {Null, Str("prod")}, o \in {Null, IntV(5)}, ac \in {Null}}
    \cup {CredentialArgs("create", Null, Str("web01"), Str("SSH"), Null, Null,
                         Bool(FALSE), Null, Null)}
    \cup {CredentialArgs("update", id, n, Null, Null, Null, ac, Null, Null) :
        id \in {Null, Str(ValidId), Str("invalid")},
        n \in {Null, Str("web01")}, ac \in {Null, Bool(FALSE)}}

\* the values of an upstream record come in three shapes
UpstreamShapes == {"text", "native", "null_name"}

UpstreamValue(key, shape) ==
    CASE key = "sys_id" -> Str(ValidId)
      [] key = "name" -> IF shape = "null_name" THEN Null
                         ELSE IF shape = "text" THEN Str(" web01 ") ELSE Str("db02")
      [] key = "type" -> Str("SSH")
      [] key = "active" -> CASE shape = "text" -> Str("true")
                             [] shape = "native" -> Bool(FALSE)
                             [] OTHER -> Str("YES")
      [] key = "tag" -> Str("prod")
      [] key = "order" -> CASE shape = "text" -> Str("5")
                            [] shape = "native" -> IntV(7)
                            [] OTHER -> Str("abc")
      [] key = "affinity" -> Str("")
      [] OTHER -> Str("s3cret")

\* type, tag and affinity come together, and so do the secrets of one
\* credential type; the other fields vary one by one
UpstreamKeyGroups ==
    {{"type", "tag", "affinity"}, {"password", "passphrase"},
     {"ssh_private_key", "community_string"}, {"API_Token"}, {"sys_updated_by"}}

UpstreamKeySets ==
    {base \cup UNION groups :
        base \in SUBSET {"sys_id", "name", "active", "order"},
        groups \in SUBSET UpstreamKeyGroups}

UpstreamRecords ==
    {[k \in keys |-> UpstreamValue(k, shape)] :
        keys \in UpstreamKeySets, shape \in UpstreamShapes}

\* records that follow the first one in a list answer
FollowingRecords ==
    {[k \in keys |-> UpstreamValue(k, "text")] :
        keys \in {SeqRange(SAFE_FIELDS), SeqRange(SAFE_FIELDS) \cup {"password"}}}

RECURSIVE SeqsUpTo(_, _)
SeqsUpTo(S, n) ==
    IF n = 0 THEN {<<>>}
    ELSE SeqsUpTo(S, n - 1)
         \cup {Append(q, x) : q \in {q \in SeqsUpTo(S, n - 1) : Len(q) = n - 1}, x \in S}

UpstreamLists ==
    {<<>>} \cup {<<first>> \o rest :
                    first \in UpstreamRecords, rest \in SeqsUpTo(FollowingRecords, MaxRecords - 1)}

CredentialAnswers(action) ==
    TransportErrors \cup
    CASE action = "list" -> {Ok(ListData(rs)) : rs \in UpstreamLists}
      [] action = "get" -> {Ok(RecordData(r)) : r \in UpstreamRecords}
                           \cup {Ok(ListData(<<>>))}
      [] action = "delete" -> {Ok(NoData)}
      [] OTHER -> {Ok(RecordData(r)) : r \in UpstreamRecords}

AnyAnswer == Raises("API")

\* the tool function manage_discovery_credentials runs to its end
ManageDiscoveryCredentials ==
    /\ pc = "called"
    /\ inv.tool = "credentials"
    /\ LET dry == manage_discovery_credentials(inv, AnyAnswer)
       IN  IF dry.sent = <<>>
           THEN Returns(dry, <<>>)
           ELSE \E answer \in CredentialAnswers(lower(strip(inv.action))) :
                    LET run == manage_discovery_credentials(inv, answer)
                    IN  Returns(run, <<answer>>)

CredNext ==
    \/ \E outcome \in InitOutcomes : Startup(outcome)
    \/ \E args \in CredentialInvocations : Invoke(args)
    \/ ManageDiscoveryCredentials

SpecCred == ToolInit /\ [][CredNext]_vars

\* the credential records in the data of the envelope just returned by
\* list, get, create or update
ReturnedCredentials ==
    IF pc = "idle" /\ inv.tool = "credentials" /\ resp.success
          /\ resp.action \in {"list", "get", "create", "update"}
    THEN IF resp.data.kind = "list" THEN SeqRange(resp.data.items)
         ELSE IF resp.data.kind = "record" THEN {resp.data.rec}
         ELSE {}
    ELSE {}

\* the records the transport answered with
UpstreamCredentials ==
    {r \in UpstreamRecords \cup FollowingRecords :
        \E i \in 1..Len(upstream) :
            /\ upstream[i].ok
            /\ \/ upstream[i].value.kind = "record" /\ upstream[i].value.rec = r
               \/ upstream[i].value.kind = "list" /\ r \in SeqRange(upstream[i].value.items)}

BlacklistedSubstrings ==
    {"password", "secret", "private_key", "ssh_private", "community", "passphrase",
     "token", "credential", "auth_key", "key_file", "pem", "cert_body"}

\* the keys, of all that occur, whose lowercase form contains such a substring
BlacklistedKeys ==
    {key \in SeqRange(SAFE_FIELDS) \cup UpstreamExtraKeys :
        \E pat \in BlacklistedSubstrings : Contains(lower(key), pat)}

\* C1: no key of a credential record returned by list, get, create or update
\* contains, in lowercase, any of the blacklisted substrings, whatever the
\* upstream response carried.
C1_NoSecretKeys ==
    \A r \in ReturnedCredentials : DOMAIN r \cap BlacklistedKeys = {}

\* a record is returned although the upstream record carried password,
\* ssh_private_key, community_string, passphrase and a mixed-case token key
C1_Witness ==
    /\ ReturnedCredentials # {}
    /\ \E r \in UpstreamCredentials :
           {"password", "ssh_private_key", "community_string", "passphrase",
            "API_Token"} \subseteq DOMAIN r

\* C2: the key set of every credential record returned by list, get, create
\* and update is exactly {sys_id, name, type, active, tag, order, affinity}.
C2_ExactKeySet ==
    \A r \in ReturnedCredentials :
        DOMAIN r = {"sys_id", "name", "type", "active", "tag", "order", "affinity"}

\* a record is returned for an upstream record that has a non-secret extra
\* field and lacks some of the seven fields
C2_Witness ==
    /\ ReturnedCredentials # {}
    /\ \E r \in UpstreamCredentials :
           /\ "sys_updated_by" \in DOMAIN r
           /\ "password" \notin DOMAIN r
           /\ "type" \notin DOMAIN r

-----------------------------------------------------------------------------
(* client.py: one call of get/post/put/patch/delete through the session *)

\* has_retry_after = bool(response.headers.get("Retry-After"))
HasRetryAfter(response) == IsStr(response.retry_after) /\ response.retry_after.s # ""

\* mutant: the Retry-After header is not respected by the retry strategy
IsRetryForcelistOnly(response, total) == response.status \in RETRY_STATUS_CODES

\* Retry.is_retry for the strategy built by _create_session; `total` is what
\* is left of max_retries
IsRetry(response, total) ==
    \/ response.status \in RETRY_STATUS_CODES
    \/ /\ total # 0
       /\ HasRetryAfter(response)
       /\ response.status \in RETRY_AFTER_STATUS_CODES

\* network failures the adapter retries (connect and read errors)
RetriedExceptions == {"Timeout", "ConnectionError"}

\* Retry.increment(): the attempt is repeated unless the budget is exhausted
RetriesLeft(trace) == DEFAULT_MAX_RETRIES - Len(trace)

Repeats(result, trace) ==
    /\ RetriesLeft(trace) - 1 >= 0
    /\ IF result.net THEN result.exc \in RetriedExceptions
       ELSE IsRetry(result, RetriesLeft(trace))

AttemptResults == ModelledResponses \cup {NetFailure(e) : e \in NetExceptions}

\* a caller invokes client.get/post/put/patch/delete
ClientCall(method) ==
    /\ http.pc # "sending"
    /\ http' = [pc |-> "sending", method |-> method, trace |-> <<>>,
                outcome |-> NoOutcome]
    /\ UNCHANGED <<serverVars, toolVars>>

\* a repeated attempt's response is drained: its body is never read
Drained(result) == IF result.net THEN result ELSE [result EXCEPT !.body = "empty"]

\* one attempt inside Session.request that the retry strategy repeats
AttemptRetried(result) ==
    /\ http.pc = "sending"
    /\ Repeats(result, http.trace)
    /\ result = Drained(result)
    /\ http' = [http EXCEPT !.trace = Append(@, result)]
    /\ UNCHANGED <<serverVars, toolVars>>

\* the last attempt: Session.request returns or raises, and the client method
\* runs to its end (_request, _raise_for_status, _extract_result)
AttemptFinal(result) ==
    /\ http.pc = "sending"
    /\ ~Repeats(result, http.trace)
    /\ http' = [http EXCEPT
                  !.pc = "done",
                  !.trace = Append(@, result),
                  !.outcome = IF result.net
                              THEN [kind |-> "error",
                                    err |-> _handle_request_exception(result.exc)]
                              ELSE Finish(http.method, result)]
    /\ UNCHANGED <<serverVars, toolVars>>

ClientInit ==
    /\ client = TRUE
    /\ config = TRUE
    /\ config_error = Null
    /\ pc = "idle"
    /\ inv = NoInv
    /\ sent = <<>>
    /\ upstream = <<>>
    /\ resp = NoResp
    /\ http = HttpIdle

ClientNext ==
    \/ \E method \in Methods : ClientCall(method)
    \/ \E result \in AttemptResults : AttemptRetried(result)
    \/ \E result \in AttemptResults : AttemptFinal(result)

SpecClient == ClientInit /\ [][ClientNext]_vars

\* the response the status check of the finished call saw
FinalAttempt == http.trace[Len(http.trace)]

Done == http.pc = "done"

-----------------------------------------------------------------------------
(* Claims about the transport client, checked under SpecClient *)

FinalStatusIn(S) == Done /\ ~FinalAttempt.net /\ FinalAttempt.status \in S

DocumentedKind ==
    [st \in {401, 403, 404, 429, 500, 502, 503, 400} |->
        CASE st = 401 -> "Auth"
          [] st = 403 -> "Permission"
          [] st = 404 -> "NotFound"
          [] st = 429 -> "RateLimit"
          [] OTHER -> "API"]

\* C3: for every response status in {401, 403, 404, 429, 500, 502, 503, 400}
\* the status check raises exactly the documented error kind, and the error's
\* status_code is the response status.
C3_StatusMapping ==
    FinalStatusIn(DOMAIN DocumentedKind) =>
        /\ http.outcome.kind = "error"
        /\ http.outcome.err.kind = DocumentedKind[FinalAttempt.status]
        /\ http.outcome.err.error_code = error_code(DocumentedKind[FinalAttempt.status])
        /\ http.outcome.err.status_code = IntV(FinalAttempt.status)

C3_Witness ==
    /\ FinalStatusIn({404})
    /\ http.outcome.kind = "error"
    /\ http.outcome.err.kind = "NotFound"
    /\ http.outcome.err.status_code = IntV(404)

TaxonomyErrorFor(status) ==
    /\ http.outcome.kind = "error"
    /\ http.outcome.err.kind =
          (CASE status = 401 -> "Auth"
             [] status = 403 -> "Permission"
             [] status = 404 -> "NotFound"
             [] status = 429 -> "RateLimit"
             [] OTHER -> "API")

\* C4 as stated: every response whose status is not 2xx makes get, post, put,
\* patch and delete raise a taxonomy error; none returns normally.
C4_Original ==
    (Done /\ ~FinalAttempt.net /\ ~(200 <= FinalAttempt.status /\ FinalAttempt.status < 300))
        => TaxonomyErrorFor(FinalAttempt.status)

\* C4 amended: every response whose status is 4xx or 5xx makes get, post,
\* put, patch and delete raise a taxonomy error (APIError unless the status
\* is 401, 403, 404 or 429); none returns normally for such a response.
C4_ErrorStatusRaises ==
    (Done /\ ~FinalAttempt.net /\ 400 <= FinalAttempt.status /\ FinalAttempt.status < 600)
        => TaxonomyErrorFor(FinalAttempt.status)

C4_Witness ==
    /\ FinalStatusIn({500})
    /\ http.method = "DELETE"
    /\ http.outcome.kind = "error"
    /\ http.outcome.err.kind = "API"

\* C5: a 429 response with a Retry-After header yields a RateLimitError whose
\* details hold retry_after equal to the header's text; a 429 response
\* without the header yields a RateLimitError whose details have no
\* retry_after key.
C5_RetryAfter ==
    FinalStatusIn({429}) =>
        /\ http.outcome.kind = "error"
        /\ http.outcome.err.kind = "RateLimit"
        /\ IF IsNull(FinalAttempt.retry_after)
           THEN "retry_after" \notin DOMAIN http.outcome.err.details
           ELSE /\ "retry_after" \in DOMAIN http.outcome.err.details
                /\ http.outcome.err.details["retry_after"] = FinalAttempt.retry_after

C5_Witness ==
    /\ FinalStatusIn({429})
    /\ FinalAttempt.retry_after = Str("60")
    /\ http.outcome.kind = "error"
    /\ "retry_after" \in DOMAIN http.outcome.err.details
    /\ http.outcome.err.details["retry_after"] = Str("60")

\* the attempts of the call that were repeated
RepeatedAttempts ==
    IF Done THEN SubSeq(http.trace, 1, Len(http.trace) - 1) ELSE http.trace

\* C6 as stated: one call makes at most the configured number (3) of HTTP
\* attempts; an attempt is repeated only after a network failure or a 502,
\* 503 or 504 response, so a 429 is never retried; the caller observes one
\* final outcome, a result or a taxonomy error.
C6_Original ==
    /\ Len(http.trace) <= DEFAULT_MAX_RETRIES
    /\ \A i \in 1..Len(RepeatedAttempts) :
          \/ RepeatedAttempts[i].net
          \/ RepeatedAttempts[i].status \in RETRY_STATUS_CODES
    /\ Done => http.outcome.kind \in {"result", "error"}

\* C7: every transport-level exception raised while sending becomes a
\* ConnectionError kind: code CONNECTION_ERROR, no status code, the original
\* text in details.original_error; the call never ends with a result.
C7_ConnectionError ==
    (Done /\ FinalAttempt.net) =>
        /\ http.outcome.kind = "error"
        /\ http.outcome.err.kind = "Connection"
        /\ http.outcome.err.error_code = "CONNECTION_ERROR"
        /\ http.outcome.err.status_code = Null
        /\ "original_error" \in DOMAIN http.outcome.err.details
        /\ http.outcome.err.details["original_error"] = Str(FinalAttempt.exc)

C7_Witness ==
    /\ Done
    /\ FinalAttempt.net
    /\ FinalAttempt.exc = "InvalidURL"
    /\ http.outcome.kind = "error"
    /\ http.outcome.err.error_code = "CONNECTION_ERROR"

-----------------------------------------------------------------------------
(* ipaddress (standard library), as tools/ranges.py uses it *)

\* s.split(c) for a one-character separator
RECURSIVE Split(_, _)
Split(s, c) ==
    IF ~Contains(s, c) THEN <<s>>
    ELSE LET i == CHOOSE k \in 1..Len(s) :
                      CharAt(s, k) = c /\ \A j \in 1..(k - 1) : CharAt(s, j) # c
         IN  <<SubSeq(s, 1, i - 1)>> \o Split(SubSeq(s, i + 1, Len(s)), c)

\* IPv4Address._parse_octet: decimal digits, at most 3, no leading zero
OctetOk(t) ==
    /\ IsDigits(t)
    /\ Len(t) <= 3
    /\ Len(t) > 1 => Head(t) # "0"
    /\ DigitsValue(t) <= 255

\* IPv6Address._parse_hextet: 1 to 4 hex digits
HextetOk(t) == t # "" /\ AllHex(t) /\ Len(t) <= 4

RECURSIVE HexValue(_)
HexValue(t) ==
    IF t = "" THEN 0
    ELSE 16 * HexValue(SubSeq(t, 1, Len(t) - 1))
         + (IndexIn(LowerChar(CharAt(t, Len(t))), "0123456789abcdef") - 1)

NotAnAddress == [ok |-> FALSE]

\* IPv4Address(s): the four octets, most significant first
IPv4FromOctets(octets) ==
    IF Len(octets) = 4 /\ \A i \in 1..4 : OctetOk(octets[i])
    THEN [ok |-> TRUE, version |-> 4,
          value |-> [i \in 1..4 |-> DigitsValue(octets[i])]]
    ELSE NotAnAddress

IPv4Address(s) == IPv4FromOctets(Split(s, "."))

\* IPv6Address(s) for text without a zone id or an embedded IPv4 address:
\* the eight hextets, most significant first
IPv6FromParts(parts) ==
    LET n == Len(parts)
        skips == {i \in 2..(n - 1) : parts[i] = ""}
        skip == CHOOSE i \in skips : TRUE
        hi == IF parts[1] = "" THEN skip - 2 ELSE skip - 1
        lo == IF parts[n] = "" THEN n - skip - 1 ELSE n - skip
        kept == IF skips = {} THEN parts
                ELSE SubSeq(parts, IF parts[1] = "" THEN 2 ELSE 1, skip - 1)
                     \o [i \in 1..(8 - (hi + lo)) |-> "0"]
                     \o SubSeq(parts, skip + 1, IF parts[n] = "" THEN n - 1 ELSE n)
        shaped ==
            /\ n >= 3
            /\ n <= 8 + 1
            /\ Cardinality(skips) <= 1
            /\ IF skips = {}
               THEN n = 8 /\ parts[1] # "" /\ parts[n] # ""
               ELSE /\ parts[1] = "" => skip = 2
                    /\ parts[n] = "" => skip = n - 1
                    /\ 8 - (hi + lo) >= 1
    IN  IF shaped /\ \A i \in 1..Len(kept) : HextetOk(kept[i])
        THEN [ok |-> TRUE, version |-> 6,
              value |-> [i \in 1..8 |-> HexValue(kept[i])]]
        ELSE NotAnAddress

IPv6Address(s) == IPv6FromParts(Split(s, ":"))

\* try: return first; except ValueError: return second
OrElse(first, second) == IF first.ok THEN first ELSE second

\* ipaddress.ip_address(s): IPv4 first, then IPv6, else ValueError
ip_address(s) == OrElse(IPv4Address(s), IPv6Address(s))

\* int(a) < int(b) for two addresses of one family: the first differing part
\* decides
RECURSIVE IntLess(_, _)
IntLess(a, b) ==
    IF Len(a) = 0 THEN FALSE
    ELSE IF Head(a) # Head(b) THEN Head(a) < Head(b)
    ELSE IntLess(Tail(a), Tail(b))

\* ipaddress.ip_network(s, strict=False) for address[/prefixlen] text
NetworkFromParts(parts, addr) ==
    /\ Len(parts) <= 2
    /\ addr.ok
    /\ Len(parts) = 2 =>
          /\ IsDigits(parts[2])
          /\ DigitsValue(parts[2]) <= (IF addr.version = 4 THEN 32 ELSE 128)

ip_network_ok(s) == NetworkFromParts(Split(s, "/"), ip_address(Head(Split(s, "/"))))

-----------------------------------------------------------------------------
(* tools/ranges.py *)

RANGE_TABLE == "discovery_range"

RangeActions == {"list", "get", "create", "update", "delete", "validate"}

VALID_RANGE_TYPES == {"IP Range", "IP Network", "IP Address"}

RANGE_FIELDS == <<"sys_id", "name", "type", "active", "range_start", "range_end", "include">>

\* the outcome of a validation step: passed, or the ValueError it raises
Passed == [ok |-> TRUE]
Rejected(msg) == [ok |-> FALSE, msg |-> msg]

\* _validate_ip_address
_validate_ip_address(ip_str, label) ==
    IF ip_address(strip(ip_str)).ok THEN Passed
    ELSE Rejected("Invalid IP address for " \o label \o ": '" \o strip(ip_str) \o "'")

\* _validate_cidr
_validate_cidr(cidr_str, label) ==
    IF ip_network_ok(strip(cidr_str)) THEN Passed
    ELSE Rejected("Invalid CIDR network for " \o label \o ": '" \o strip(cidr_str) \o "'")

\* mutant: the addresses are compared by their last part only
IntBelowLastPart(a, b) == a[Len(a)] < b[Len(b)]

\* int(end_addr) < int(start_addr)
IntBelow(a, b) == IntLess(a, b)

\* _validate_ip_range
CompareAddresses(start, end, start_addr, end_addr) ==
    IF ~start_addr.ok \/ ~end_addr.ok
    THEN Rejected("does not appear to be an IPv4 or IPv6 address")
    ELSE IF start_addr.version # end_addr.version
    THEN Rejected("IP address family mismatch: start=" \o start \o " vs end=" \o end)
    ELSE IF IntBelow(end_addr.value, start_addr.value)
    THEN Rejected("Range end (" \o end \o ") must be >= range start (" \o start \o ")")
    ELSE Passed

_validate_ip_range(start, end) ==
    CompareAddresses(start, end, ip_address(start), ip_address(end))

\* statements in sequence: the rest runs only if the first raised nothing
AndThen(first, rest) == IF first.ok THEN rest ELSE first

\* `if not condition: raise ValueError(msg)`
Require(condition, msg) == IF condition THEN Passed ELSE Rejected(msg)

\* the run of a handler after its validation: nothing is sent if it raised
Validated(check, run) == IF check.ok THEN run ELSE Run(<<>>, RaiseValueError(check.msg))

\* _action_validate: the range_start step
ValidateStart(args, rt) ==
    IF ~NotBlank(args.range_start) THEN Rejected("range_start is required")
    ELSE IF rt = "IP Network" THEN _validate_cidr(args.range_start.s, "range_start")
    ELSE IF rt \in {"IP Range", "IP Address"}
    THEN _validate_ip_address(args.range_start.s, "range_start")
    ELSE Passed

\* _action_validate: the range_end step, for "IP Range" only; the range is
\* compared only when range_start was accepted
ValidateEnd(args, rt, start_ok) ==
    IF rt # "IP Range" THEN Passed
    ELSE IF ~NotBlank(args.range_end)
    THEN Rejected("range_end is required for 'IP Range' type")
    ELSE AndThen(_validate_ip_address(args.range_end.s, "range_end"),
                 IF start_ok
                 THEN _validate_ip_range(strip(args.range_start.s), strip(args.range_end.s))
                 ELSE Passed)

\* _action_validate: the envelope built from the issues collected
ValidateReport(issues, validated) ==
    IF Len(issues) > 0
    THEN make_response(FALSE, RecordData([k \in {"issues"} |-> issues]),
             "Validation failed: " \o ToString(Len(issues)) \o " issue(s)",
             "validate", Str("VALIDATION_ERROR"))
    ELSE make_response(TRUE, RecordData([k \in {"validated"} |-> validated]),
             "Validation passed", "validate", Null)

\* _action_validate: issues and validated fields, from the three steps
ValidateCollect(args, type_ok, rt, start_check, end_check) ==
    ValidateReport(
        (IF ~NotBlank(args.range_type) THEN <<"range_type is required">>
         ELSE IF ~type_ok THEN <<"Invalid range_type: '" \o args.range_type.s \o "'">>
         ELSE <<>>)
        \o (IF start_check.ok THEN <<>> ELSE <<start_check.msg>>)
        \o (IF end_check.ok THEN <<>> ELSE <<end_check.msg>>),
        PutIf(rt = "IP Range" /\ end_check.ok,
              PutIf(start_check.ok,
                    PutIf(type_ok, NoBody, "range_type", Str(rt)),
                    "range_start", Str(strip(args.range_start.s))),
              "range_end", Str(strip(args.range_end.s))))

ValidateSteps(args, type_ok, rt, start_check) ==
    ValidateCollect(args, type_ok, rt, start_check, ValidateEnd(args, rt, start_check.ok))

ValidateTyped(args, type_ok, rt) ==
    ValidateSteps(args, type_ok, rt, ValidateStart(args, rt))

\* _action_validate
ranges_action_validate(args) ==
    IF NotBlank(args.range_type) /\ strip(args.range_type.s) \in VALID_RANGE_TYPES
    THEN ValidateTyped(args, TRUE, strip(args.range_type.s))
    ELSE ValidateTyped(args, FALSE, "")

\* DiscoveryRange.from_snow(record).model_dump(mode="json"), or the
\* ValidationError (a ValueError) that validation raises
RangeDump(record) ==
    LET fields == SeqRange(RANGE_FIELDS)
        mapped == [attr \in (fields \cap DOMAIN record) |-> record[attr]]
    IN  IF \E attr \in DOMAIN mapped :
               attr \notin {"active", "include"} /\ ~IsStr(mapped[attr])
        THEN [ok |-> FALSE, msg |-> "1 validation error for DiscoveryRange"]
        ELSE [ok |-> TRUE,
              rec |-> [attr \in fields |->
                          IF attr \in {"active", "include"}
                          THEN IF attr \in DOMAIN mapped
                               THEN Bool(_coerce_bool(mapped[attr])) ELSE Bool(TRUE)
                          ELSE IF attr \in DOMAIN mapped
                               THEN Str(strip(mapped[attr].s)) ELSE Str("")]]

\* the from_snow / model_dump / envelope steps shared by get, create and update
RangeRecordReturn(action, record, verb, shown_id) ==
    LET dump == RangeDump(record)
    IN  IF ~dump.ok THEN RaiseValueError(dump.msg)
        ELSE Return(make_response(TRUE, RecordData(dump.rec),
                        verb \o " range '" \o dump.rec["name"].s \o "' ("
                             \o (IF shown_id = "" THEN dump.rec["sys_id"].s ELSE shown_id)
                             \o ")",
                        action, Null))

\* _action_list
ranges_action_list(args, answer) ==
    LET request == query_table(RANGE_TABLE,
                       CredentialListQuery(args.filter_type, args.filter_active, Null),
                       RANGE_FIELDS, args.limit, 0, Null)
        records == IF answer.value.kind = "list" THEN answer.value.items ELSE <<>>
        dumps == [i \in 1..Len(records) |-> RangeDump(records[i])]
    IN  IF ~answer.ok THEN Run(<<request>>, RaiseServiceNow(answer.err))
        ELSE IF \E i \in 1..Len(records) : ~dumps[i].ok
        THEN Run(<<request>>,
                 RaiseValueError(dumps[CHOOSE i \in 1..Len(records) : ~dumps[i].ok].msg))
        ELSE Run(<<request>>,
                 Return(make_response(TRUE,
                            ListData([i \in 1..Len(records) |-> dumps[i].rec]),
                            "Found " \o ToString(Len(records)) \o " range(s)",
                            "list", Null)))

\* _action_get
ranges_action_get(sys_id, answer) ==
    LET request == get_table_record(RANGE_TABLE, sys_id, RANGE_FIELDS)
        record == TableRecordAnswer(answer, RANGE_TABLE, sys_id)
    IN  IF ~record.ok THEN Run(<<request>>, RaiseServiceNow(record.err))
        ELSE Run(<<request>>, RangeRecordReturn("get", record.value.rec, "Retrieved", sys_id))

\* _action_create: the validation steps, in the order of the code
CreateChecks(args, rt) ==
    AndThen(Require(NotBlank(args.name), "'name' is required for create action"),
    AndThen(Require(NotBlank(args.range_type), "'range_type' is required for create action"),
    AndThen(Require(rt \in VALID_RANGE_TYPES,
                    "Invalid range_type: '" \o args.range_type.s \o "'"),
    AndThen(Require(NotBlank(args.range_start),
                    "'range_start' is required for create action"),
    AndThen(IF rt = "IP Network" THEN _validate_cidr(args.range_start.s, "range_start")
            ELSE _validate_ip_address(args.range_start.s, "range_start"),
            IF rt # "IP Range" THEN Passed
            ELSE AndThen(Require(NotBlank(args.range_end),
                                 "'range_end' is required for 'IP Range' type"),
                 AndThen(_validate_ip_address(args.range_end.s, "range_end"),
                         _validate_ip_range(strip(args.range_start.s),
                                            strip(args.range_end.s)))))))))

\* _action_create: the record it posts
CreateData(args, rt) ==
    Put(Put(PutIf(NotBlank(args.range_end),
                  [k \in {"name", "type", "range_start"} |->
                      CASE k = "name" -> Str(strip(args.name.s))
                        [] k = "type" -> Str(rt)
                        [] OTHER -> Str(strip(args.range_start.s))],
                  "range_end", Str(strip(args.range_end.s))),
            "active",
            IF ~IsNull(args.active) THEN Str(BoolText(args.active.b)) ELSE Str("true")),
        "include",
        IF ~IsNull(args.include) THEN Str(BoolText(args.include.b)) ELSE Str("true"))

\* client.post(TABLE_NAME, data), from_snow, the envelope
CreatePost(request, answer) ==
    IF ~answer.ok THEN Run(<<request>>, RaiseServiceNow(answer.err))
    ELSE Run(<<request>>, RangeRecordReturn("create", answer.value.rec, "Created", ""))

\* _action_create
ranges_action_create(args, answer) ==
    Validated(CreateChecks(args, strip(args.range_type.s)),
              CreatePost(Req("POST", RANGE_TABLE, Null,
                             CreateData(args, strip(args.range_type.s))),
                         answer))

\* _action_update: the validation steps; the range itself is never compared
UpdateChecks(args, rt) ==
    AndThen(Require(~IsNull(args.range_type) => rt \in VALID_RANGE_TYPES,
                    "Invalid range_type: '" \o args.range_type.s \o "'"),
    AndThen(IF IsNull(args.range_start) \/ rt = "" THEN Passed
            ELSE IF rt = "IP Network" THEN _validate_cidr(args.range_start.s, "range_start")
            ELSE _validate_ip_address(args.range_start.s, "range_start"),
    AndThen(IF IsNull(args.range_end) \/ strip(args.range_end.s) = "" THEN Passed
            ELSE _validate_ip_address(args.range_end.s, "range_end"),
            Require(\E k \in {"name", "range_type", "range_start", "range_end",
                              "active", "include"} : ~IsNull(args[k]),
                    "At least one field must be provided for update"))))

\* _action_update: the fields it patches
UpdateData(args, rt) ==
    PutIf(~IsNull(args.include),
    PutIf(~IsNull(args.active),
    PutIf(~IsNull(args.range_end),
    PutIf(~IsNull(args.range_start),
    PutIf(~IsNull(args.range_type),
    PutIf(~IsNull(args.name), NoBody, "name", Str(strip(args.name.s))),
          "type", Str(rt)),
          "range_start", Str(strip(args.range_start.s))),
          "range_end", Str(strip(args.range_end.s))),
          "active", Str(BoolText(args.active.b))),
          "include", Str(BoolText(args.include.b)))

\* client.patch(TABLE_NAME, sys_id, data), from_snow, the envelope
UpdatePatch(sys_id, request, answer) ==
    IF ~answer.ok THEN Run(<<request>>, RaiseServiceNow(answer.err))
    ELSE Run(<<request>>, RangeRecordReturn("update", answer.value.rec, "Updated", sys_id))

UpdateTyped(sys_id, args, rt, answer) ==
    Validated(UpdateChecks(args, rt),
              UpdatePatch(sys_id, Req("PATCH", RANGE_TABLE, Str(sys_id), UpdateData(args, rt)),
                          answer))

\* _action_update
ranges_action_update(sys_id, args, answer) ==
    UpdateTyped(sys_id, args,
                IF ~IsNull(args.range_type) THEN strip(args.range_type.s) ELSE "", answer)

\* _action_delete
ranges_action_delete(sys_id, answer) ==
    LET request == Req("DELETE", RANGE_TABLE, Str(sys_id), NoBody)
    IN  IF ~answer.ok THEN Run(<<request>>, RaiseServiceNow(answer.err))
        ELSE Run(<<request>>,
                 Return(make_response(TRUE,
                            RecordData([k \in {"sys_id"} |-> Str(sys_id)]),
                            "Deleted range (" \o sys_id \o ")", "delete", Null)))

\* manage_discovery_ranges: validate returns before get_client is called
manage_discovery_ranges(args, answer) ==
    LET action == lower(strip(args.action))
        get(id) == ranges_action_get(id, answer)
        update(id) == ranges_action_update(id, args, answer)
        delete(id) == ranges_action_delete(id, answer)
        body == CASE action = "list" -> ranges_action_list(args, answer)
                  [] action = "get" -> WithSysId(args.sys_id, "sys_id", get)
                  [] action = "create" -> ranges_action_create(args, answer)
                  [] action = "update" -> WithSysId(args.sys_id, "sys_id", update)
                  [] OTHER -> WithSysId(args.sys_id, "sys_id", delete)
    IN  IF action = "validate" THEN Run(<<>>, ranges_action_validate(args))
        ELSE ToolFunction(action, RangeActions, body)

-----------------------------------------------------------------------------
(* manage_discovery_ranges: inputs, upstream answers, the action *)

RangeArgs(action, sys_id, name, range_type, range_start, range_end) ==
    [tool |-> "ranges", action |-> action, sys_id |-> sys_id, name |-> name,
     range_type |-> range_type, range_start |-> range_start, range_end |-> range_end,
     active |-> Null, include |-> Null, filter_type |-> Null, filter_active |-> Null,
     limit |-> 100]

\* address texts a caller may pass: both families, surrounding blanks, values
\* whose text order differs from their numeric order, malformed ones
AddressInputs ==
    {Null, Str("  "), Str("10.0.0.1"), Str(" 10.0.0.254 "), Str("10.0.0.9"),
     Str("10.0.0.10"), Str("10.0.1.0"), Str("::1"), Str("fe80::1"), Str("10.0.0.256"),
     Str("bad"), Str("10.0.0.0/24")}

RangeTypeInputs ==
    {Null, Str("IP Range"), Str(" IP Range "), Str("IP Network"), Str("IP Address"),
     Str("ip range")}

\* every pair of addresses for type "IP Range"; a few pairs for the other types
RangeInputs ==
    {<<Str("IP Range"), s, e>> : s \in AddressInputs, e \in AddressInputs}
    \cup {<<ty, p[1], p[2]>> :
            ty \in RangeTypeInputs,
            p \in {<<Null, Null>>, <<Str("10.0.0.254"), Str("10.0.0.1")>>,
                   <<Str("10.0.0.0/24"), Null>>, <<Str("bad"), Str("")>>,
                   <<Str("10.0.0.1"), Str("::1")>>}}

RangeInvocations ==
    {RangeArgs("validate", Null, Null, r[1], r[2], r[3]) : r \in RangeInputs}
    \cup {RangeArgs("create", Null, Str(" lab "), r[1], r[2], r[3]) : r \in RangeInputs}
    \cup {RangeArgs("create", Null, n, Str("IP Range"), Str("10.0.0.254"), e) :
            n \in {Null, Str("")}, e \in {Str("10.0.0.1"), Str("10.0.0.254")}}
    \cup {RangeArgs("update", Str(ValidId), Null, r[1], r[2], r[3]) : r \in RangeInputs}
    \cup {RangeArgs("update", id, Null, Str("IP Range"), Str("10.0.0.254"), Str("10.0.0.1")) :
            id \in SysIdInputs}
    \cup {RangeArgs(a, id, Null, Null, Null, Null) :
            a \in {"list", "get", " Delete ", "resize"}, id \in {Null, Str(ValidId)}}

\* discovery_range records as the instance returns them
RangeRecords ==
    {[k \in SeqRange(RANGE_FIELDS) |->
         CASE k = "sys_id" -> Str(ValidId)
           [] k = "name" -> name
           [] k = "type" -> Str("IP Range")
           [] k \in {"active", "include"} -> Str("true")
           [] k = "range_start" -> Str("10.0.0.1")
           [] OTHER -> Str("10.0.0.254")] : name \in {Str("lab"), Null}}

RangeAnswers(action) ==
    TransportErrors \cup
    CASE action = "list" -> {Ok(ListData(rs)) : rs \in SeqsUpTo(RangeRecords, 1)}
      [] action = "get" -> {Ok(RecordData(r)) : r \in RangeRecords} \cup {Ok(ListData(<<>>))}
      [] action = "delete" -> {Ok(NoData)}
      [] OTHER -> {Ok(RecordData(r)) : r \in RangeRecords}

\* the tool function manage_discovery_ranges runs to its end
ManageDiscoveryRanges ==
    /\ pc = "called"
    /\ inv.tool = "ranges"
    /\ LET dry == manage_discovery_ranges(inv, AnyAnswer)
       IN  IF dry.sent = <<>>
           THEN Returns(dry, <<>>)
           ELSE \E answer \in RangeAnswers(lower(strip(inv.action))) :
                    LET run == manage_discovery_ranges(inv, answer)
                    IN  Returns(run, <<answer>>)

RangeNext ==
    \/ \E outcome \in InitOutcomes : Startup(outcome)
    \/ \E args \in RangeInvocations : Invoke(args)
    \/ ManageDiscoveryRanges

SpecRange == ToolInit /\ [][RangeNext]_vars

\* the value of an address with the lower number is below the other's: the
\* most significant part in which they differ is smaller
NumericBelow(a, b) ==
    \E i \in 1..Len(a) : a[i] < b[i] /\ \A j \in 1..(i - 1) : a[j] = b[j]

\* what each address input is, after trimming
AddressOf ==
    [v \in {r.range_start : r \in RangeInvocations} \cup {r.range_end : r \in RangeInvocations}
        |-> IF IsStr(v) THEN ip_address(strip(v.s)) ELSE NotAnAddress]

SameFamily ==
    /\ AddressOf[inv.range_start].ok
    /\ AddressOf[inv.range_end].ok
    /\ AddressOf[inv.range_start].version = AddressOf[inv.range_end].version

WellOrdered ==
    /\ SameFamily
    /\ ~NumericBelow(AddressOf[inv.range_end].value, AddressOf[inv.range_start].value)

EndBelowStart ==
    /\ SameFamily
    /\ NumericBelow(AddressOf[inv.range_end].value, AddressOf[inv.range_start].value)

\* a validate or create of an "IP Range" has returned
IpRangeReturned(action) ==
    /\ pc = "idle"
    /\ inv.tool = "ranges"
    /\ lower(strip(inv.action)) = action
    /\ IsStr(inv.range_type)
    /\ strip(inv.range_type.s) = "IP Range"

\* the failure names the ordering: in its message or among its issues
NamesOrdering ==
    \/ Contains(resp.message, "must be >=")
    \/ /\ resp.data.kind = "record"
       /\ "issues" \in DOMAIN resp.data.rec
       /\ \E i \in 1..Len(resp.data.rec["issues"]) :
              Contains(resp.data.rec["issues"][i], "must be >=")

\* C9 as stated: validate and create of an "IP Range" succeed only for valid
\* addresses of one family with end >= start; with end below start they fail
\* with a "must be >=" message and create sends no POST; equal start and end
\* is accepted.
C9_Original ==
    \A action \in {"validate", "create"} :
        IpRangeReturned(action) =>
            /\ resp.success => WellOrdered
            /\ EndBelowStart => ~resp.success /\ NamesOrdering /\ sent = <<>>
            /\ (action = "validate" /\ WellOrdered) => resp.success

\* C9, amended: validate of an "IP Range" succeeds exactly when the addresses
\* are valid, of one family and end >= start (so equal ones are accepted), and
\* create succeeds only then and then sends its POST when it has a name and a
\* client; with end below start no request is sent, validate lists a
\* "must be >=" issue, and create fails with VALIDATION_ERROR and a "must be >="
\* message when it has a name and a client, with the missing name's
\* VALIDATION_ERROR when it has a client but no name, and with
\* CLIENT_NOT_CONFIGURED when it has no client.
C9_RangeOrder ==
    /\ IpRangeReturned("validate") =>
          /\ resp.success <=> WellOrdered
          /\ EndBelowStart => resp.error = Str("VALIDATION_ERROR") /\ NamesOrdering
                              /\ sent = <<>>
    /\ IpRangeReturned("create") =>
          /\ resp.success => WellOrdered
          /\ (WellOrdered /\ client /\ NotBlank(inv.name)) =>
                Len(sent) = 1 /\ sent[1].method = "POST"
          /\ EndBelowStart =>
                /\ ~resp.success
                /\ sent = <<>>
                /\ resp.error = IF client THEN Str("VALIDATION_ERROR")
                                ELSE Str("CLIENT_NOT_CONFIGURED")
                /\ client => (NamesOrdering <=> NotBlank(inv.name))

\* a create with a name and a client is refused for 10.0.0.10 .. 10.0.0.9,
\* whose texts are in the opposite order of their values
C9_Witness ==
    /\ IpRangeReturned("create")
    /\ client
    /\ NotBlank(inv.name)
    /\ inv.range_start = Str("10.0.0.10")
    /\ inv.range_end = Str("10.0.0.9")
    /\ resp.error = Str("VALIDATION_ERROR")
    /\ Contains(resp.message, "must be >=")
    /\ sent = <<>>

\* the mutations sent to the discovery_range table that carry type "IP Range"
\* and both ends
IpRangeMutations ==
    {i \in 1..Len(sent) :
        /\ sent[i].table = RANGE_TABLE
        /\ sent[i].method \in {"POST", "PUT", "PATCH"}
        /\ {"type", "range_start", "range_end"} \subseteq DOMAIN sent[i].body
        /\ sent[i].body["type"] = Str("IP Range")}

\* C10: no create or update sent to the discovery_range table carries, for
\* type "IP Range", a range_end below range_start or of another family.
C10_Original ==
    \A i \in IpRangeMutations :
        LET start == ip_address(sent[i].body["range_start"].s)
            end == ip_address(sent[i].body["range_end"].s)
        IN  (start.ok /\ end.ok) =>
                /\ start.version = end.version
                /\ ~NumericBelow(end.value, start.value)

-----------------------------------------------------------------------------
(* Python float: IEEE 754 binary64 arithmetic, round to nearest, ties to    *)
(* even.  A magnitude is a natural number written in limbs of 14 bits, the  *)
(* least significant first; a float is a sign and a magnitude in units of   *)
(* 2^-70, which holds every double between 2^-17 and 2^28 exactly.          *)

Limb == 2^14

Limbs == 1..14

\* the number whose limb at position i is AtLimb(i), every limb evaluated
LimbWise(AtLimb(_)) ==
    <<AtLimb(1), AtLimb(2), AtLimb(3), AtLimb(4), AtLimb(5), AtLimb(6), AtLimb(7),
      AtLimb(8), AtLimb(9), AtLimb(10), AtLimb(11), AtLimb(12), AtLimb(13), AtLimb(14)>>

\* the element of a set of one element: the operands of an operation are
\* evaluated before the operation is, as Python evaluates them
The(S) == CHOOSE v \in S : TRUE

BigZero == LimbWise(LAMBDA i : 0)

\* the limb of x at position j, 0 outside the number
LimbAt(x, j) == IF j \in Limbs THEN x[j] ELSE 0

\* a natural number below 2^31
BigOfNat(n) ==
    LimbWise(LAMBDA i :
        CASE i = 1 -> n % Limb
          [] i = 2 -> (n \div Limb) % Limb
          [] i = 3 -> n \div (Limb * Limb)
          [] OTHER -> 0)

\* x * Limb^w and x \div Limb^w
ShiftLimbs(x, w) == LimbWise(LAMBDA i : LimbAt(x, i - w))
DropLimbs(x, w) == LimbWise(LAMBDA i : LimbAt(x, i + w))

\* the carry into limb i of x + y: a limb below i overflows and every limb
\* between the two passes the carry on
CarryInto(x, y, i) ==
    IF \E j \in 1..(i - 1) :
           /\ x[j] + y[j] >= Limb
           /\ \A k \in (j + 1)..(i - 1) : x[k] + y[k] = Limb - 1
    THEN 1 ELSE 0

BigAdd(x, y) == LimbWise(LAMBDA i : (x[i] + y[i] + CarryInto(x, y, i)) % Limb)

\* x * k for a natural k below 2^17: the limb products x[i] * k, written in
\* base Limb as three digits, are summed place by place
MulSmall(x, k) ==
    The({BigAdd(low_mid, high) :
            low_mid \in {BigAdd(LimbWise(LAMBDA i : (x[i] * k) % Limb),
                                LimbWise(LAMBDA i : ((LimbAt(x, i - 1) * k) \div Limb) % Limb))},
            high \in {LimbWise(LAMBDA i : (LimbAt(x, i - 2) * k) \div (Limb * Limb))}})

\* x * y: the sum of x * (limb j of y) * Limb^(j-1)
RECURSIVE MulLimbs(_, _, _)
MulLimbs(x, y, j) ==
    IF j \notin Limbs THEN BigZero
    ELSE IF y[j] = 0 THEN MulLimbs(x, y, j + 1)
    ELSE The({BigAdd(part, rest) :
                 part \in {ShiftLimbs(MulSmall(x, y[j]), j - 1)},
                 rest \in {MulLimbs(x, y, j + 1)}})

BigMul(x, y) == MulLimbs(x, y, 1)

\* the remainder of a * Limb^e by b, for naturals a < 2^31 and 0 < b < 2^17
RECURSIVE RemAt(_, _, _)
RemAt(a, b, e) == IF e = 0 THEN a % b ELSE (RemAt(a, b, e - 1) * Limb) % b

\* long division of a by b to five limbs after the point: the quotient in
\* units of 2^-70, cut off, and the remainder that is left
DivSmall(a, b) ==
    [q |-> LimbWise(LAMBDA i : IF i <= 5 THEN (RemAt(a, b, 5 - i) * Limb) \div b
                               ELSE LimbAt(BigOfNat(a \div b), i - 5)),
     rem |-> RemAt(a, b, 5)]

BigLess(x, y) ==
    \E i \in Limbs : x[i] < y[i] /\ \A j \in Limbs : j > i => x[j] = y[j]

\* the number of bits of a limb
IntBitLen(v) == CHOOSE n \in 0..14 : v < 2^n /\ (n > 0 => v >= 2^(n - 1))

\* the position of the highest limb of x that is not 0, 0 when x is 0
TopLimb(x) ==
    IF \A i \in Limbs : x[i] = 0 THEN 0
    ELSE CHOOSE i \in Limbs : x[i] # 0 /\ \A j \in Limbs : j > i => x[j] = 0

BitLenAt(x, top) == IF top = 0 THEN 0 ELSE 14 * (top - 1) + IntBitLen(x[top])

\* the number of bits of x
BitLen(x) == BitLenAt(x, TopLimb(x))

\* x \div 2^(14 w + b) and x * 2^(14 w + b), 0 <= b < 14
ShiftRightBy(x, w, b) ==
    LimbWise(LAMBDA i :
        (LimbAt(x, i + w) \div 2^b) + (LimbAt(x, i + w + 1) % 2^b) * 2^(14 - b))

ShiftLeftBy(x, w, b) ==
    LimbWise(LAMBDA i :
        ((LimbAt(x, i - w) * 2^b) % Limb) + (LimbAt(x, i - w - 1) \div 2^(14 - b)))

ShiftRight(x, d) == ShiftRightBy(x, d \div 14, d % 14)
ShiftLeft(x, d) == ShiftLeftBy(x, d \div 14, d % 14)

\* bit j of x, bit 0 being the lowest
BitOf(x, j) == (LimbAt(x, (j \div 14) + 1) \div 2^(j % 14)) % 2

\* the lowest d bits of x are zero
LowBitsZero(x, d) == \A j \in 0..(d - 1) : BitOf(x, j) = 0

\* x with its lowest d bits rounded away, to nearest and ties to even;
\* `sticky` tells that the exact value lies above x
RoundAway(x, d, sticky) ==
    The({ShiftLeft(kept, d) :
            kept \in {IF BitOf(x, d - 1) = 1
                         /\ (sticky \/ ~LowBitsZero(x, d - 1) \/ BitOf(x, d) = 1)
                      THEN BigAdd(ShiftRight(x, d), BigOfNat(1))
                      ELSE ShiftRight(x, d)}})

RoundBits(x, len, sticky) == IF len <= 53 THEN x ELSE RoundAway(x, len - 53, sticky)

\* the double nearest to an exact magnitude: 53 significant bits are kept
RoundDouble(x, sticky) == RoundBits(x, BitLen(x), sticky)

\* a float: its sign and its magnitude in units of 2^-70
Float(neg, mag) == [neg |-> neg, mag |-> mag]

Abs(n) == IF n < 0 THEN 0 - n ELSE n

IsZero(x) == \A i \in Limbs : x.mag[i] = 0

\* float(n) of an int below 2^31 in magnitude
FloatOfInt(n) == Float(n < 0, ShiftLimbs(BigOfNat(Abs(n)), 5))

RoundQuotient(division) == RoundDouble(division.q, division.rem # 0)

\* a / b of two ints, b > 0: the quotient correctly rounded
IntTrueDiv(a, b) ==
    The({Float(a < 0, RoundQuotient(division)) :
            division \in {DivSmall(Abs(a), b)}})

\* x * k of a float and an int
FloatTimesInt(a, n) ==
    The({Float(a.neg # (n < 0), RoundDouble(product, FALSE)) :
            product \in {MulSmall(a.mag, Abs(n))}})

FloatMulInt(x, k) == The({FloatTimesInt(a, n) : a \in {x}, n \in {k}})

\* x * y of two floats: the exact product is in units of 2^-140
FloatProduct(a, b) ==
    The({Float(a.neg # b.neg, DropLimbs(RoundDouble(product, FALSE), 5)) :
            product \in {BigMul(a.mag, b.mag)}})

FloatMul(x, y) == The({FloatProduct(a, b) : a \in {x}, b \in {y}})

\* x + y of two floats that are not negative
FloatSum(a, b) ==
    The({Float(FALSE, RoundDouble(sum, FALSE)) : sum \in {BigAdd(a.mag, b.mag)}})

FloatAdd(x, y) == The({FloatSum(a, b) : a \in {x}, b \in {y}})

\* x < y
FloatLess(x, y) ==
    CASE IsZero(x) /\ IsZero(y) -> FALSE
      [] x.neg /\ ~y.neg -> TRUE
      [] ~x.neg /\ y.neg -> FALSE
      [] x.neg -> BigLess(y.mag, x.mag)
      [] OTHER -> BigLess(x.mag, y.mag)

BigToNat(x) == x[1] + Limb * x[2] + Limb * Limb * x[3]

\* int(x): the fraction is cut off, towards zero
FloatToInt(x) ==
    IF x.neg THEN 0 - BigToNat(DropLimbs(x.mag, 5)) ELSE BigToNat(DropLimbs(x.mag, 5))

\* a decimal literal such as 0.4 is the double nearest to 4/10
Literal(num, den) == IntTrueDiv(num, den)

\* the literals of the tools
Float04 == Literal(4, 10)
Float02 == Literal(2, 10)
Float11 == Literal(11, 10)
Float09 == Literal(9, 10)

\* round(x, 1) of a float that is not negative, in tenths: the nearest
\* tenth of the exact value, ties to even
TenthsOf(scaled) ==
    BigToNat(DropLimbs(scaled, 5))
    + (IF BitOf(scaled, 69) = 1
          /\ (~LowBitsZero(scaled, 69) \/ BitOf(scaled, 70) = 1)
       THEN 1 ELSE 0)

RoundTenths(x) == The({TenthsOf(scaled) : scaled \in {MulSmall(x.mag, 10)}})

-----------------------------------------------------------------------------
(* The tools of scans, schedules and patterns: what their handlers share *)

STATUS_TABLE == "discovery_status"
LOG_TABLE == "discovery_log"
SCHEDULE_TABLE == "discovery_schedule"
PATTERN_TABLE == "cmdb_ci_pattern"

STATUS_FIELDS ==
    <<"sys_id", "name", "state", "source", "dscl_status", "log", "started", "completed",
      "ci_count", "ip_address", "mid_server">>

LOG_FIELDS == <<"sys_id", "status", "level", "message", "source", "created_on">>

SCHEDULE_FIELDS ==
    <<"sys_id", "name", "active", "discover", "max_run_time", "run_dayofweek", "run_time",
      "mid_select_method", "location">>

PATTERN_FIELDS == <<"sys_id", "name", "active", "ci_type", "criteria", "description">>

\* models.py: the fields of each model that are declared `str`; the other
\* fields pass through validators that accept any value
ModelStrFields(model) ==
    CASE model = "DiscoveryStatus" ->
            {"sys_id", "name", "state", "source", "dscl_status", "log", "ip_address",
             "mid_server"}
      [] model = "DiscoverySchedule" ->
            {"sys_id", "name", "discover", "max_run_time", "run_dayofweek", "run_time",
             "mid_select_method", "location"}
      [] model = "DiscoveryPattern" -> {"sys_id", "name", "ci_type", "criteria", "description"}
      [] model = "DiscoveryLog" -> {"sys_id", "status", "level", "message", "source"}
      [] OTHER -> {}

\* Model.from_snow(record) raises no ValidationError
ModelValid(model, record) ==
    \A attr \in ModelStrFields(model) \cap DOMAIN record : IsStr(record[attr])

\* a client call of a handler: its request and the model that the records
\* of its answer are validated with right after it; "" when they are read
\* as plain dicts, "len(message)" when their messages are then measured
Call(request, model) == [req |-> request, model |-> model]

\* the records that from_snow validates after a call: those of a query or a
\* fetch, the record a POST or PATCH answered with
RecordsOf(request, value) ==
    IF value.kind = "record" THEN {value.rec}
    ELSE IF value.kind = "list" /\ request.method = "GET" THEN SeqRange(value.items)
    ELSE {}

\* `len(msg)` and `msg[:100]` of msg = record.get("message", default), and
\* the Counter keyed by it, raise a TypeError for a message that is no str
MessageHandled(record) == "message" \in DOMAIN record => IsStr(record["message"])

\* how the handler goes on after a client call: the error the call raised,
\* the ValidationError of from_snow, the TypeError of the message loop, or
\* on to the next statement
AfterCall(call, result) ==
    IF ~result.ok THEN RaiseServiceNow(result.err)
    ELSE IF call.model = "len(message)"
    THEN IF \A record \in RecordsOf(call.req, result.value) : MessageHandled(record)
         THEN [how |-> "next"]
         ELSE RaiseOther("TypeError", "object of type 'NoneType' has no len()")
    ELSE IF call.model # ""
            /\ \E record \in RecordsOf(call.req, result.value) :
                   ~ModelValid(call.model, record)
    THEN RaiseValueError("1 validation error for " \o call.model)
    ELSE [how |-> "next"]

\* what a client method returns or raises for the answer of the transport:
\* get_table_record raises NotFound for an empty result, query_table returns
\* [] for a result that is no list, post and patch return the result as it is
CallResult(request, answer) ==
    IF ~answer.ok \/ request.method # "GET" THEN answer
    ELSE IF IsStr(request.id) THEN TableRecordAnswer(answer, request.table, request.id.s)
    ELSE IF answer.value.kind = "list" THEN answer
    ELSE Ok(ListData(<<>>))

\* the first call after which the handler does not go on
FirstRaise(ends) ==
    CHOOSE i \in 1..Len(ends) :
        ends[i].how # "next" /\ \A j \in 1..(i - 1) : ends[j].how = "next"

\* the calls up to the first that raises, or all of them and the envelope
Conclude(calls, ends, envelope) ==
    IF \A i \in 1..Len(ends) : ends[i].how = "next"
    THEN Run([i \in 1..Len(calls) |-> calls[i].req], Return(envelope))
    ELSE Run([i \in 1..FirstRaise(ends) |-> calls[i].req], ends[FirstRaise(ends)])

\* the client calls of a handler in order, `answers` being those of the
\* transport
Perform(calls, answers, envelope) ==
    Conclude(calls,
             [i \in 1..Len(calls) |->
                 AfterCall(calls[i], CallResult(calls[i].req, answers[i]))],
             envelope)

\* the data of a successful envelope stands for what the handler computed
\* from the records it read, and so does its message
ResultData == [kind |-> "result"]

Succeeded(action) == make_response(TRUE, ResultData, "(computed)", action, Null)

\* a handler: its validation, then its client calls, then its envelope
Handler(action, check, calls, answers) ==
    Validated(check, Perform(calls, answers, Succeeded(action)))

\* "^".join(conditions) if conditions else None
QueryOf(conditions) == IF Len(conditions) = 0 THEN Null ELSE Str(Join("^", conditions))

-----------------------------------------------------------------------------
(* tools/status.py *)

StatusActions == {"get", "list", "details", "poll"}

VALID_STATES == {"Starting", "Active", "Completed", "Cancelled", "Error"}

\* status._build_list_query
StatusListQuery(state, date_from, date_to) ==
    QueryOf(Condition(NotBlank(state), "state=" \o strip(state.s))
            \o Condition(NotBlank(date_from), "started>=" \o strip(date_from.s))
            \o Condition(NotBlank(date_to), "started<=" \o strip(date_to.s)))

\* what each action validates before its first client call
StatusChecks(action, args) ==
    IF action = "list"
    THEN Require(NotBlank(args.state) => strip(args.state.s) \in VALID_STATES,
                 "Invalid state filter: '" \o args.state.s \o "'")
    ELSE validate_sys_id(args.scan_sys_id, "scan_sys_id")

\* the client calls of each action, `id` being the validated scan_sys_id
StatusCalls(action, args, id) ==
    CASE action = "list" ->
            <<Call(query_table(STATUS_TABLE,
                               StatusListQuery(args.state, args.date_from, args.date_to),
                               STATUS_FIELDS, args.limit, 0, Str("-sys_created_on")),
                   "DiscoveryStatus")>>
      [] action = "details" ->
            <<Call(get_table_record(STATUS_TABLE, id, STATUS_FIELDS), "DiscoveryStatus"),
              Call(query_table(LOG_TABLE, Str("status=" \o id),
                               <<"sys_id", "level", "message", "source", "created_on">>,
                               100, 0, Str("-created_on")),
                   "")>>
      [] OTHER ->
            <<Call(get_table_record(STATUS_TABLE, id, STATUS_FIELDS), "DiscoveryStatus")>>

StatusTool(action, args, answers) ==
    ToolFunction(action, StatusActions,
        Handler(action, StatusChecks(action, args),
                StatusCalls(action, args, validate_sys_id(args.scan_sys_id, "").id),
                answers))

\* get_discovery_status
get_discovery_status(args, answers) == StatusTool(lower(strip(args.action)), args, answers)

-----------------------------------------------------------------------------
(* tools/schedules_list.py *)

SchedulesListActions == {"list", "get", "summary"}

\* schedules_list._build_list_query
SchedulesListQuery(active, discover_type, name_filter) ==
    QueryOf(Condition(~IsNull(active), "active=" \o BoolText(active.b))
            \o Condition(NotBlank(discover_type), "discover=" \o strip(discover_type.s))
            \o Condition(NotBlank(name_filter), "nameLIKE" \o strip(name_filter.s)))

SchedulesListChecks(action, args) ==
    IF action = "get" THEN validate_sys_id(args.schedule_sys_id, "schedule_sys_id")
    ELSE Passed

SchedulesListCalls(action, args, id) ==
    CASE action = "list" ->
            <<Call(query_table(SCHEDULE_TABLE,
                               SchedulesListQuery(args.active, args.discover_type,
                                                  args.name_filter),
                               SCHEDULE_FIELDS, args.limit, 0, Null),
                   "DiscoverySchedule")>>
      [] action = "get" ->
            <<Call(get_table_record(SCHEDULE_TABLE, id, SCHEDULE_FIELDS),
                   "DiscoverySchedule")>>
      [] OTHER ->
            <<Call(query_table(SCHEDULE_TABLE, Null, SCHEDULE_FIELDS, 500, 0, Null),
                   "DiscoverySchedule")>>

SchedulesListTool(action, args, answers) ==
    ToolFunction(action, SchedulesListActions,
        Handler(action, SchedulesListChecks(action, args),
                SchedulesListCalls(action, args,
                                   validate_sys_id(args.schedule_sys_id, "").id),
                answers))

\* list_discovery_schedules
list_discovery_schedules(args, answers) ==
    SchedulesListTool(lower(strip(args.action)), args, answers)

-----------------------------------------------------------------------------
(* tools/patterns.py *)

PatternActions == {"list", "get", "analyze", "coverage"}

\* patterns._build_list_query
PatternListQuery(ci_type, active, name_filter) ==
    QueryOf(Condition(NotBlank(ci_type), "ci_type=" \o strip(ci_type.s))
            \o Condition(~IsNull(active), "active=" \o BoolText(active.b))
            \o Condition(NotBlank(name_filter), "nameLIKE" \o strip(name_filter.s)))

PatternChecks(action, args) ==
    CASE action = "get" -> validate_sys_id(args.pattern_sys_id, "pattern_sys_id")
      [] action = "analyze" ->
            Require(NotBlank(args.ci_type), "'ci_type' is required for analyze action")
      [] OTHER -> Passed

PatternCalls(action, args, id) ==
    CASE action = "list" ->
            <<Call(query_table(PATTERN_TABLE,
                               PatternListQuery(args.ci_type, args.active, args.name_filter),
                               PATTERN_FIELDS, args.limit, 0, Null),
                   "DiscoveryPattern")>>
      [] action = "get" ->
            <<Call(get_table_record(PATTERN_TABLE, id, PATTERN_FIELDS), "DiscoveryPattern")>>
      [] action = "analyze" ->
            <<Call(query_table(PATTERN_TABLE, Str("ci_type=" \o strip(args.ci_type.s)),
                               PATTERN_FIELDS, 100, 0, Null),
                   "DiscoveryPattern")>>
      [] OTHER ->
            <<Call(query_table(PATTERN_TABLE, Null, PATTERN_FIELDS, 500, 0, Null),
                   "DiscoveryPattern")>>

PatternTool(action, args, answers) ==
    ToolFunction(action, PatternActions,
        Handler(action, PatternChecks(action, args),
                PatternCalls(action, args, validate_sys_id(args.pattern_sys_id, "").id),
                answers))

\* get_discovery_patterns
get_discovery_patterns(args, answers) ==
    PatternTool(lower(strip(args.action)), args, answers)

-----------------------------------------------------------------------------
(* tools/schedule.py *)

ScheduleActions == {"trigger", "create"}

VALID_DISCOVER_TYPES == {"IP", "CI", "Network", "Cloud", "Configuration"}

\* a list argument
ListOf(items) == [t |-> "list", items |-> items]

\* `if ip_ranges: for i, range_id in enumerate(ip_ranges): _validate_sys_id(...)`
IpRangesCheck(ip_ranges) ==
    IF IsNull(ip_ranges)
       \/ \A i \in 1..Len(ip_ranges.items) : validate_sys_id(ip_ranges.items[i], "").ok
    THEN Passed
    ELSE LET i == CHOOSE n \in 1..Len(ip_ranges.items) :
                      /\ ~validate_sys_id(ip_ranges.items[n], "").ok
                      /\ \A m \in 1..(n - 1) : validate_sys_id(ip_ranges.items[m], "").ok
         IN  validate_sys_id(ip_ranges.items[i], "ip_ranges[" \o ToString(i - 1) \o "]")

ScheduleChecks(action, args) ==
    IF action = "trigger" THEN validate_sys_id(args.schedule_sys_id, "schedule_sys_id")
    ELSE AndThen(Require(NotBlank(args.name), "'name' is required for create action"),
         AndThen(Require(NotBlank(args.discover_type),
                         "'discover_type' is required for create action"),
         AndThen(Require(strip(args.discover_type.s) \in VALID_DISCOVER_TYPES,
                         "Invalid discover_type: '" \o strip(args.discover_type.s) \o "'"),
                 IpRangesCheck(args.ip_ranges))))

\* _action_create: the record it posts
ScheduleCreateData(args) ==
    PutIf(NotBlank(args.mid_server),
          PutIf(NotBlank(args.mid_server),
                [k \in {"name", "discover", "active", "max_run_time"} |->
                    CASE k = "name" -> Str(strip(args.name.s))
                      [] k = "discover" -> Str(strip(args.discover_type.s))
                      [] k = "active" -> Str("true")
                      [] OTHER -> args.max_run_time],
                "mid_select_method", Str("Specific")),
          "mid_server", Str(strip(args.mid_server.s)))

\* mutant: trigger writes to the scan
TriggerPatchOfStatus(id) ==
    Req("PATCH", STATUS_TABLE, Str(id), [k \in {"active"} |-> Str("true")])

\* _action_trigger: client.patch(SCHEDULE_TABLE, validated_id, {"active": "true"})
TriggerPatch(id) ==
    Req("PATCH", SCHEDULE_TABLE, Str(id), [k \in {"active"} |-> Str("true")])

\* mutant: trigger activates the schedule before it has read it
TriggerCallsPatchFirst(id) ==
    <<Call(TriggerPatch(id), ""),
      Call(get_table_record(SCHEDULE_TABLE, id, SCHEDULE_FIELDS), "DiscoverySchedule"),
      Call(query_table(STATUS_TABLE, Str("source=" \o id), STATUS_FIELDS, 1, 0,
                       Str("-sys_created_on")),
           "DiscoveryStatus")>>

\* _action_trigger: the schedule is read, activated, and its latest scan is
\* read
TriggerCalls(id) ==
    <<Call(get_table_record(SCHEDULE_TABLE, id, SCHEDULE_FIELDS), "DiscoverySchedule"),
      Call(TriggerPatch(id), ""),
      Call(query_table(STATUS_TABLE, Str("source=" \o id), STATUS_FIELDS, 1, 0,
                       Str("-sys_created_on")),
           "DiscoveryStatus")>>

ScheduleCalls(action, args, id) ==
    IF action = "trigger" THEN TriggerCalls(id)
    ELSE <<Call(Req("POST", SCHEDULE_TABLE, Null, ScheduleCreateData(args)),
                "DiscoverySchedule")>>

ScheduleTool(action, args, answers) ==
    ToolFunction(action, ScheduleActions,
        Handler(action, ScheduleChecks(action, args),
                ScheduleCalls(action, args, validate_sys_id(args.schedule_sys_id, "").id),
                answers))

\* schedule_discovery_scan
schedule_discovery_scan(args, answers) ==
    ScheduleTool(lower(strip(args.action)), args, answers)

-----------------------------------------------------------------------------
(* tools/analysis.py *)

AnalysisActions == {"analyze", "errors", "trend", "coverage"}

\* trend validates schedule_sys_id only when one is given
AnalysisChecks(action, args) ==
    CASE action \in {"analyze", "errors"} -> validate_sys_id(args.scan_sys_id, "scan_sys_id")
      [] action = "trend" ->
            IF NotBlank(args.schedule_sys_id)
            THEN validate_sys_id(args.schedule_sys_id, "schedule_sys_id")
            ELSE Passed
      [] OTHER -> validate_sys_id(args.schedule_sys_id, "schedule_sys_id")

\* _action_trend: its query
TrendQuery(schedule_sys_id, date_from, date_to) ==
    QueryOf(Condition(NotBlank(schedule_sys_id), "source=" \o strip(schedule_sys_id.s))
            \o Condition(NotBlank(date_from), "started>=" \o strip(date_from.s))
            \o Condition(NotBlank(date_to), "started<=" \o strip(date_to.s)))

AnalysisCalls(action, args, scan_id, schedule_id) ==
    CASE action = "analyze" ->
            <<Call(get_table_record(STATUS_TABLE, scan_id, STATUS_FIELDS), "DiscoveryStatus"),
              Call(query_table(LOG_TABLE, Str("status=" \o scan_id), LOG_FIELDS, 500, 0, Null),
                   "DiscoveryLog")>>
      [] action = "errors" ->
            <<Call(query_table(LOG_TABLE, Str("status=" \o scan_id \o "^levelINError,Warning"),
                               LOG_FIELDS, 500, 0, Null),
                   "DiscoveryLog")>>
      [] action = "trend" ->
            <<Call(query_table(STATUS_TABLE,
                               TrendQuery(args.schedule_sys_id, args.date_from, args.date_to),
                               STATUS_FIELDS, args.last_n_scans, 0, Str("-sys_created_on")),
                   "DiscoveryStatus")>>
      [] OTHER ->
            <<Call(query_table(STATUS_TABLE,
                               Str("source=" \o schedule_id \o "^state=Completed"),
                               STATUS_FIELDS, 50, 0, Str("-sys_created_on")),
                   "DiscoveryStatus"),
              Call(query_table(RANGE_TABLE, Str("active=true"),
                               <<"sys_id", "name", "type", "range_start", "range_end",
                                 "active">>,
                               200, 0, Null),
                   "")>>

\* the list that query_table returned for an answer ([] when it raised)
Queried(answer) ==
    IF answer.ok /\ answer.value.kind = "list" THEN answer.value.items ELSE <<>>

\* DiscoveryStatus.state of a record: "" by default, stripped
StateOf(record) ==
    IF "state" \in DOMAIN record /\ IsStr(record["state"]) THEN strip(record["state"].s)
    ELSE ""

CountState(records, state) ==
    Cardinality({i \in 1..Len(records) : StateOf(records[i]) = state})

Max(a, b) == IF a >= b THEN a ELSE b
Min(a, b) == IF a <= b THEN a ELSE b

\* DiscoveryStatus.ci_count: 0 by default, coerced from the record's text
CiCount(record) ==
    IF "ci_count" \in DOMAIN record THEN _coerce_int(record["ci_count"], 0) ELSE 0

RECURSIVE SumOf(_)
SumOf(counts) == IF counts = <<>> THEN 0 ELSE Head(counts) + SumOf(Tail(counts))

\* sum(half) / len(half) if half else 0
Average(half) == IF half = <<>> THEN FloatOfInt(0) ELSE IntTrueDiv(SumOf(half), Len(half))

\* avg_second > avg_first * 1.1, avg_second < avg_first * 0.9, else
TrendOfAverages(avg_first, avg_second) ==
    IF FloatLess(FloatMul(avg_first, Float11), avg_second) THEN "improving"
    ELSE IF FloatLess(avg_second, FloatMul(avg_first, Float09)) THEN "degrading"
    ELSE "stable"

\* mutant: a single scan counts as stable
TrendDirectionFromOne(ci_counts) ==
    IF Len(ci_counts) >= 1
    THEN TrendOfAverages(Average(SubSeq(ci_counts, Len(ci_counts) \div 2 + 1, Len(ci_counts))),
                         Average(SubSeq(ci_counts, 1, Len(ci_counts) \div 2)))
    ELSE "insufficient_data"

\* trend_direction of the CI counts, newest first: first_half is
\* ci_counts[len // 2:], the older scans, second_half ci_counts[:len // 2]
TrendDirection(ci_counts) ==
    IF Len(ci_counts) >= 2
    THEN TrendOfAverages(Average(SubSeq(ci_counts, Len(ci_counts) \div 2 + 1, Len(ci_counts))),
                         Average(SubSeq(ci_counts, 1, Len(ci_counts) \div 2)))
    ELSE "insufficient_data"

\* the envelope of _action_trend for the scans that its query returned; of the
\* trend data the rates, the durations and the list of scans are left out, and
\* of the message the success rate and the trend
TrendReport(scans) ==
    IF scans = <<>>
    THEN make_response(TRUE, [kind |-> "trend", scans |-> <<>>, trend |-> "no_data"],
                       "No scans found for the specified criteria", "trend", Null)
    ELSE make_response(TRUE,
             [kind |-> "trend", scan_count |-> Len(scans),
              total_cis_discovered |-> SumOf([i \in 1..Len(scans) |-> CiCount(scans[i])]),
              completed |-> CountState(scans, "Completed"),
              errors |-> CountState(scans, "Error"),
              trend_direction |->
                  TrendDirection([i \in 1..Len(scans) |-> CiCount(scans[i])])],
             "Trend analysis: " \o ToString(Len(scans)) \o " scans", "trend", Null)

\* _ERROR_CATEGORIES, in the order of the dict
_ERROR_CATEGORIES ==
    <<[category |-> "credential_failure",
       keywords |-> <<"credential", "authentication", "login", "password", "access denied">>],
      [category |-> "network_timeout",
       keywords |-> <<"timeout", "timed out", "unreachable", "connection refused">>],
      [category |-> "classification_failure",
       keywords |-> <<"classification", "pattern", "classify", "unclassified">>],
      [category |-> "port_scan_failure",
       keywords |-> <<"port scan", "port closed", "port unreachable">>],
      [category |-> "snmp_failure", keywords |-> <<"snmp", "community string", "snmp timeout">>],
      [category |-> "ssh_failure", keywords |-> <<"ssh", "key exchange", "host key">>],
      [category |-> "wmi_failure", keywords |-> <<"wmi", "windows management", "dcom">>]>>

\* any(kw in lower_msg for kw in keywords)
AnyKeyword(keywords, lower_msg) ==
    \E k \in 1..Len(keywords) : Contains(lower_msg, keywords[k])

\* the categories of the dict, in its order, that have a keyword in the text
Matching(lower_msg) ==
    {i \in 1..Len(_ERROR_CATEGORIES) : AnyKeyword(_ERROR_CATEGORIES[i].keywords, lower_msg)}

FirstMatching(lower_msg) ==
    CHOOSE i \in Matching(lower_msg) : \A j \in Matching(lower_msg) : i <= j

\* the loop of _categorize_error over the categories
CategoryOf(lower_msg) ==
    IF Matching(lower_msg) = {} THEN "other"
    ELSE _ERROR_CATEGORIES[FirstMatching(lower_msg)].category

\* mutant: the keywords are looked for in the message as it is written
_categorize_error_as_written(message) == CategoryOf(message)

\* _categorize_error: the first category with a keyword in the lowercased
\* message, or "other"
_categorize_error(message) ==
    The({CategoryOf(lower_msg) : lower_msg \in {lower(message)}})

\* a field of DiscoveryLog: "" by default, stripped
LogField(record, field) ==
    IF field \in DOMAIN record THEN strip(record[field].s) ELSE ""

\* categorized_errors: one entry for every log, in the order of the logs
CategorizedError(lg, message) ==
    [message |-> SubSeq(message, 1, Min(200, Len(message))),
     level |-> LogField(lg, "level"),
     category |-> _categorize_error(message),
     source |-> LogField(lg, "source")]

CategorizedErrors(logs) ==
    [i \in 1..Len(logs) |->
        The({CategorizedError(logs[i], message) :
                message \in {LogField(logs[i], "message")}})]

\* how many earlier entries of Counter.most_common a category has before it:
\* the categories that are more frequent, and the equally frequent ones that
\* were counted first
CommonBefore(errors, i) ==
    Cardinality({j \in 1..Len(errors) :
        /\ \A k \in 1..(j - 1) : errors[k].category # errors[j].category
        /\ errors[j].category # errors[i].category
        /\ LET count_j == Cardinality({k \in 1..Len(errors) :
                                          errors[k].category = errors[j].category})
               count_i == Cardinality({k \in 1..Len(errors) :
                                          errors[k].category = errors[i].category})
               first_i == CHOOSE k \in 1..Len(errors) :
                              /\ errors[k].category = errors[i].category
                              /\ \A m \in 1..(k - 1) : errors[m].category # errors[i].category
           IN  count_j > count_i \/ (count_j = count_i /\ j < first_i)})

\* category_counter.most_common(10)
TopCategories(errors) ==
    LET firsts == {i \in 1..Len(errors) :
                      \A k \in 1..(i - 1) : errors[k].category # errors[i].category}
    IN  [n \in 1..Min(10, Cardinality(firsts)) |->
            LET i == CHOOSE i \in firsts : CommonBefore(errors, i) = n - 1
            IN  [category |-> errors[i].category,
                 count |-> Cardinality({k \in 1..Len(errors) :
                                           errors[k].category = errors[i].category})]]

\* the envelope of _action_errors for the logs that its query returned
ErrorsCategorized(scan_id, logs, errors) ==
    make_response(TRUE,
        [kind |-> "errors", scan_sys_id |-> scan_id, total_errors |-> Len(logs),
         by_category |-> TopCategories(errors),
         errors |-> SubSeq(errors, 1, Min(50, Len(errors)))],
        "Found " \o ToString(Len(logs)) \o " error/warning entries in "
            \o ToString(Cardinality({errors[i].category : i \in 1..Len(errors)}))
            \o " categories",
        "errors", Null)

ErrorsReport(scan_id, logs) == ErrorsCategorized(scan_id, logs, CategorizedErrors(logs))

\* what the handler of an action returns when none of its calls raises
AnalysisResult(action, args, answers) ==
    CASE action = "trend" -> TrendReport(Queried(answers[1]))
      [] action = "errors" ->
            ErrorsReport(validate_sys_id(args.scan_sys_id, "").id, Queried(answers[1]))
      [] OTHER -> Succeeded(action)

AnalysisTool(action, args, answers) ==
    ToolFunction(action, AnalysisActions,
        Validated(AnalysisChecks(action, args),
                  Perform(AnalysisCalls(action, args,
                                        validate_sys_id(args.scan_sys_id, "").id,
                                        validate_sys_id(args.schedule_sys_id, "").id),
                          answers, AnalysisResult(action, args, answers))))

\* analyze_discovery_results
analyze_discovery_results(args, answers) ==
    AnalysisTool(lower(strip(args.action)), args, answers)

-----------------------------------------------------------------------------
(* tools/compare.py *)

CompareActions == {"compare", "sequential"}

CompareChecks(action, args) ==
    IF action = "compare"
    THEN AndThen(validate_sys_id(args.scan_a_sys_id, "scan_a_sys_id"),
                 validate_sys_id(args.scan_b_sys_id, "scan_b_sys_id"))
    ELSE validate_sys_id(args.schedule_sys_id, "schedule_sys_id")

\* _get_scan_with_errors: the log records are read as plain dicts and
\* counted by message
_get_scan_with_errors(scan_sys_id) ==
    <<Call(get_table_record(STATUS_TABLE, scan_sys_id, STATUS_FIELDS), "DiscoveryStatus"),
      Call(query_table(LOG_TABLE, Str("status=" \o scan_sys_id \o "^level=Error"),
                       LOG_FIELDS, 300, 0, Null),
           "len(message)")>>

CompareCalls(action, args, scan_a, scan_b, schedule_id) ==
    IF action = "compare"
    THEN _get_scan_with_errors(scan_a) \o _get_scan_with_errors(scan_b)
    ELSE <<Call(query_table(STATUS_TABLE, Str("source=" \o schedule_id), STATUS_FIELDS,
                            args.last_n, 0, Str("-sys_created_on")),
                "DiscoveryStatus")>>

\* the record that get_table_record returned for an answer
Fetched(answer) ==
    IF answer.value.kind = "record" THEN answer.value.rec ELSE answer.value.items[1]

\* msg = lr.get("message", "Unknown"); key = msg[:100] if len(msg) > 100 else msg
ErrorKey(lr) ==
    IF "message" \notin DOMAIN lr THEN "Unknown"
    ELSE IF Len(lr["message"].s) > 100 THEN SubSeq(lr["message"].s, 1, 100)
    ELSE lr["message"].s

\* error_counter[key] of the log records of a scan, 0 for a key it has not
ErrorCount(log_records, key) ==
    Cardinality({i \in 1..Len(log_records) : ErrorKey(log_records[i]) = key})

ErrorKeys(log_records) == {ErrorKey(log_records[i]) : i \in 1..Len(log_records)}

\* ErrorDelta(message=msg, count_a=..., count_b=...) with its status set:
\* the model strips the message
ErrorDelta(msg, status, count_a, count_b) ==
    [message |-> strip(msg), status |-> status, count_a |-> count_a, count_b |-> count_b]

\* the list of the deltas of some keys.  The keys are walked in the
\* iteration order of a set of str, which differs from run to run: the list
\* is given as the bag of its entries
DeltasOf(keys, status, logs_a, logs_b) ==
    LET deltas == {ErrorDelta(k, status, ErrorCount(logs_a, k), ErrorCount(logs_b, k)) :
                      k \in keys}
    IN  [d \in deltas |->
            Cardinality({k \in keys :
                ErrorDelta(k, status, ErrorCount(logs_a, k), ErrorCount(logs_b, k)) = d})]

\* the envelope of _action_compare; of the result the durations, the
\* (always empty) CI lists and the time of the comparison are left out
CompareReport(id_a, id_b, status_a, logs_a, status_b, logs_b) ==
    make_response(TRUE,
        [kind |-> "compare", scan_a_sys_id |-> id_a, scan_b_sys_id |-> id_b,
         scan_a_state |-> StateOf(status_a), scan_b_state |-> StateOf(status_b),
         delta_ci_count |-> CiCount(status_b) - CiCount(status_a),
         delta_error_count |-> Len(logs_b) - Len(logs_a),
         errors_new |->
             DeltasOf({k \in ErrorKeys(logs_a) \cup ErrorKeys(logs_b) :
                          ErrorCount(logs_a, k) = 0 /\ ErrorCount(logs_b, k) > 0},
                      "new", logs_a, logs_b),
         errors_resolved |->
             DeltasOf({k \in ErrorKeys(logs_a) \cup ErrorKeys(logs_b) :
                          ErrorCount(logs_a, k) > 0 /\ ErrorCount(logs_b, k) = 0},
                      "resolved", logs_a, logs_b),
         errors_persistent |->
             DeltasOf({k \in ErrorKeys(logs_a) \cup ErrorKeys(logs_b) :
                          ErrorCount(logs_a, k) > 0 /\ ErrorCount(logs_b, k) > 0},
                      "persistent", logs_a, logs_b)],
        "Compared scan A (" \o StateOf(status_a) \o ", " \o ToString(CiCount(status_a))
            \o " CIs) vs B (" \o StateOf(status_b) \o ", " \o ToString(CiCount(status_b))
            \o " CIs): delta_ci=" \o ToString(CiCount(status_b) - CiCount(status_a))
            \o ", delta_errors=" \o ToString(Len(logs_b) - Len(logs_a)),
        "compare", Null)

\* one entry of the comparisons of _action_sequential; the names, the start
\* times and the durations are left out
Comparison(newer, older) ==
    [scan_newer |-> [sys_id |-> LogField(newer, "sys_id"), state |-> StateOf(newer),
                     ci_count |-> CiCount(newer)],
     scan_older |-> [sys_id |-> LogField(older, "sys_id"), state |-> StateOf(older),
                     ci_count |-> CiCount(older)],
     delta_ci_count |-> CiCount(newer) - CiCount(older)]

\* mutant: the overall trend with its directions exchanged
SequentialTrendReversed(first, last) ==
    IF first < last THEN "improving"
    ELSE IF first > last THEN "degrading"
    ELSE "stable"

\* the overall trend of _action_sequential, of the first and the last count
SequentialTrend(first, last) ==
    IF first > last THEN "improving"
    ELSE IF first < last THEN "degrading"
    ELSE "stable"

\* the envelope of _action_sequential for the scans that its query returned
SequentialReport(schedule_id, scans) ==
    IF Len(scans) < 2
    THEN make_response(TRUE,
             [kind |-> "sequential", schedule_sys_id |-> schedule_id,
              scans_found |-> Len(scans), comparisons |-> <<>>],
             "Need at least 2 scans to compare; found " \o ToString(Len(scans))
                 \o " for schedule " \o schedule_id,
             "sequential", Null)
    ELSE make_response(TRUE,
             [kind |-> "sequential", schedule_sys_id |-> schedule_id,
              scans_analyzed |-> Len(scans),
              trend |-> SequentialTrend(CiCount(scans[1]), CiCount(scans[Len(scans)])),
              comparisons |-> [i \in 1..(Len(scans) - 1) |->
                                  Comparison(scans[i], scans[i + 1])]],
             "Sequential comparison: " \o ToString(Len(scans)) \o " scans, "
                 \o ToString(Len(scans) - 1) \o " comparisons, trend="
                 \o SequentialTrend(CiCount(scans[1]), CiCount(scans[Len(scans)])),
             "sequential", Null)

\* what the handler of an action returns when none of its calls raises
CompareResult(action, scan_a, scan_b, schedule_id, answers) ==
    IF action = "compare"
    THEN CompareReport(scan_a, scan_b, Fetched(answers[1]), Queried(answers[2]),
                       Fetched(answers[3]), Queried(answers[4]))
    ELSE SequentialReport(schedule_id, Queried(answers[1]))

CompareFor(action, args, scan_a, scan_b, schedule_id, answers) ==
    Validated(CompareChecks(action, args),
              Perform(CompareCalls(action, args, scan_a, scan_b, schedule_id), answers,
                      CompareResult(action, scan_a, scan_b, schedule_id, answers)))

CompareTool(action, args, answers) ==
    ToolFunction(action, CompareActions,
        CompareFor(action, args, validate_sys_id(args.scan_a_sys_id, "").id,
                   validate_sys_id(args.scan_b_sys_id, "").id,
                   validate_sys_id(args.schedule_sys_id, "").id, answers))

\* compare_discovery_runs
compare_discovery_runs(args, answers) ==
    CompareTool(lower(strip(args.action)), args, answers)

-----------------------------------------------------------------------------
(* tools/remediation.py *)

RemediationActions ==
    {"diagnose", "credential_fix", "network_fix", "classification_fix", "bulk_remediate"}

RemediationChecks(action, args) ==
    IF action = "bulk_remediate"
    THEN AndThen(validate_sys_id(args.scan_sys_id, "scan_sys_id"),
                 Require(NotBlank(args.remediation_type),
                         "'remediation_type' is required for bulk_remediate action"))
    ELSE validate_sys_id(args.scan_sys_id, "scan_sys_id")

\* _get_scan_errors
_get_scan_errors(scan_sys_id) ==
    <<Call(get_table_record(STATUS_TABLE, scan_sys_id, STATUS_FIELDS), "DiscoveryStatus"),
      Call(query_table(LOG_TABLE, Str("status=" \o scan_sys_id \o "^levelINError,Warning"),
                       LOG_FIELDS, 500, 0, Null),
           "DiscoveryLog")>>

\* what an action reads after the scan and its logs; no action sends any
\* request other than GET
RemediationLookup(action) ==
    CASE action = "credential_fix" ->
            <<Call(query_table(CREDENTIAL_TABLE, Null, SAFE_FIELDS, 100, 0, Null), "")>>
      [] action = "network_fix" ->
            <<Call(query_table(RANGE_TABLE, Str("active=true"),
                               <<"sys_id", "name", "type", "range_start", "range_end",
                                 "active">>,
                               200, 0, Null),
                   "")>>
      [] action = "classification_fix" ->
            <<Call(query_table(PATTERN_TABLE, Str("active=true"), PATTERN_FIELDS, 200, 0,
                               Null),
                   "")>>
      [] OTHER -> <<>>

\* mutant: the plan is a dry run whatever confirm is
DryRunAlways(confirm) == TRUE

\* "dry_run": not confirm
DryRun(confirm) == ~confirm

\* the plan of an action: credential_fix and bulk_remediate report dry_run,
\* and a note when confirm is false; the counts, the recommendations and
\* the items of a plan are left out
RemediationPlan(action, scan_sys_id, confirm) ==
    IF action \in {"credential_fix", "bulk_remediate"}
    THEN PutIf(~confirm,
               [k \in {"kind", "scan_sys_id", "dry_run"} |->
                    CASE k = "kind" -> Str("plan")
                      [] k = "scan_sys_id" -> Str(scan_sys_id)
                      [] OTHER -> Bool(DryRun(confirm))],
               "note", Str("This is a dry-run"))
    ELSE [k \in {"kind", "scan_sys_id"} |->
             IF k = "kind" THEN Str("plan") ELSE Str(scan_sys_id)]

RemediationFor(action, args, scan_sys_id, answers) ==
    Validated(RemediationChecks(action, args),
              Perform(_get_scan_errors(scan_sys_id) \o RemediationLookup(action), answers,
                      make_response(TRUE,
                                    RemediationPlan(action, scan_sys_id, args.confirm),
                                    "(computed)", action, Null)))

RemediationTool(action, args, answers) ==
    ToolFunction(action, RemediationActions,
        RemediationFor(action, args, validate_sys_id(args.scan_sys_id, "").id, answers))

\* remediate_discovery_failures
remediate_discovery_failures(args, answers) ==
    RemediationTool(lower(strip(args.action)), args, answers)

-----------------------------------------------------------------------------
(* tools/health.py *)

_VALID_PERIODS == {"day", "week", "month"}

_PERIOD_DAYS(period) ==
    CASE period = "day" -> 1
      [] period = "week" -> 7
      [] OTHER -> 30

\* since.strftime(...): the start of the window, `days` before now
SinceStr(period) == "now-" \o ToString(_PERIOD_DAYS(period)) \o "d"

\* the client calls of _compute_health; the error logs are read only when
\* a scan of the window failed
HealthCalls(period, with_logs) ==
    <<Call(query_table(STATUS_TABLE, Str("started>=" \o SinceStr(period)),
                       <<"sys_id", "name", "state", "started", "completed", "ci_count",
                         "ip_address">>,
                       500, 0, Null),
           "DiscoveryStatus"),
      Call(query_table(SCHEDULE_TABLE, Null, <<"sys_id", "name", "active", "discover">>,
                       500, 0, Null),
           ""),
      Call(query_table(CREDENTIAL_TABLE, Null, <<"sys_id", "name", "active", "type">>,
                       500, 0, Null),
           ""),
      Call(query_table(RANGE_TABLE, Null, <<"sys_id", "name", "active", "type">>,
                       500, 0, Null),
           "")>>
    \o (IF with_logs
        THEN <<Call(query_table(LOG_TABLE,
                                Str("created_on>=" \o SinceStr(period) \o "^level=Error"),
                                <<"sys_id", "message", "level">>, 200, 0, Null),
                    "len(message)")>>
        ELSE <<>>)

\* `r.get("active") in ("true", True)`: 1 == True in Python
ActiveFlag(record) ==
    "active" \in DOMAIN record /\ record["active"] \in {Str("true"), Bool(TRUE), IntV(1)}

CountActive(records) == Cardinality({i \in 1..Len(records) : ActiveFlag(records[i])})

\* the counts that the scores are computed from
HealthCounts(scans, schedules, creds, ranges) ==
    [total_scans |-> Len(scans), completed |-> CountState(scans, "Completed"),
     failed |-> CountState(scans, "Error"), cancelled |-> CountState(scans, "Cancelled"),
     total_schedules |-> Len(schedules), active_schedules |-> CountActive(schedules),
     total_creds |-> Len(creds), active_creds |-> CountActive(creds),
     total_ranges |-> Len(ranges), active_ranges |-> CountActive(ranges)]

\* error_rate = (failed / total_scans * 100) if total_scans > 0 else 0.0
ErrorRate(failed, total_scans) ==
    IF total_scans > 0 THEN FloatMulInt(IntTrueDiv(failed, total_scans), 100)
    ELSE FloatOfInt(0)

\* mutant: the penalty is the error rate itself, not twice the error rate
ScanScoreSinglePenalty(error_rate) == Max(0, 100 - FloatToInt(error_rate))

\* scan_score = max(0, 100 - int(error_rate * 2))
ScanScore(error_rate) == Max(0, 100 - FloatToInt(FloatMulInt(error_rate, 2)))

\* mutant: the score of an empty collection is 100
RatioScoreEmptyFull(active, total) ==
    IF total = 0 THEN 100 ELSE FloatToInt(FloatMulInt(IntTrueDiv(active, total), 100))

\* schedule_score, cred_score, range_score: 50, or int(active / total * 100)
RatioScore(active, total) ==
    IF total = 0 THEN 50 ELSE FloatToInt(FloatMulInt(IntTrueDiv(active, total), 100))

\* scan_score * 0.4 + schedule_score * 0.2 + cred_score * 0.2 + range_score * 0.2
WeightedSum(scan_score, schedule_score, cred_score, range_score) ==
    The({FloatAdd(FloatAdd(FloatAdd(scan, schedule), cred), range) :
            scan \in {FloatMulInt(Float04, scan_score)},
            schedule \in {FloatMulInt(Float02, schedule_score)},
            cred \in {FloatMulInt(Float02, cred_score)},
            range \in {FloatMulInt(Float02, range_score)}})

\* health_score = max(0, min(100, int(weighted sum)))
HealthScore(scan_score, schedule_score, cred_score, range_score) ==
    The({Max(0, Min(100, FloatToInt(sum))) :
            sum \in {WeightedSum(scan_score, schedule_score, cred_score, range_score)}})

\* mutant: "healthy" only above 80
StatusLabelAbove80(health_score) ==
    IF health_score > 80 THEN "healthy"
    ELSE IF health_score >= 50 THEN "warning" ELSE "critical"

StatusLabel(health_score) ==
    IF health_score >= 80 THEN "healthy"
    ELSE IF health_score >= 50 THEN "warning" ELSE "critical"

\* the scores of the four parts
HealthScores(c) ==
    [scan |-> ScanScore(ErrorRate(c.failed, c.total_scans)),
     schedule |-> RatioScore(c.active_schedules, c.total_schedules),
     cred |-> RatioScore(c.active_creds, c.total_creds),
     range |-> RatioScore(c.active_ranges, c.total_ranges)]

\* the recommendations, each named by its rule, in the order of the rules
Recommendations(c, error_rate, health_score) ==
    Condition(FloatLess(FloatOfInt(20), error_rate), "high_error_rate")
    \o Condition(c.total_schedules - c.active_schedules > c.active_schedules
                  /\ c.total_schedules > 0, "inactive_schedules")
    \o Condition(c.total_creds - c.active_creds > 0, "inactive_credentials")
    \o Condition(c.total_ranges = 0, "no_ranges")
    \o Condition(c.total_scans = 0, "no_scans")
    \o Condition(health_score >= 80, "healthy")

\* DiscoveryHealthSummary(...).model_dump(): error_rate is round(error_rate,
\* 1), here in tenths, and both it and health_score are clamped by their
\* validators; top_errors, the durations and the CI total are left out
HealthSummary(period, c, error_rate, health_score) ==
    [total_scans |-> c.total_scans, successful |-> c.completed, failed |-> c.failed,
     cancelled |-> c.cancelled,
     error_rate_tenths |-> Max(0, Min(1000, RoundTenths(error_rate))),
     health_score |-> Max(0, Min(100, health_score)), period |-> period]

SubMetrics(c, scores) ==
    [scan_health |-> [score |-> scores.scan, total_scans |-> c.total_scans,
                      failed |-> c.failed],
     schedule_health |-> [score |-> scores.schedule, total |-> c.total_schedules,
                          active |-> c.active_schedules,
                          inactive |-> c.total_schedules - c.active_schedules],
     credential_health |-> [score |-> scores.cred, total |-> c.total_creds,
                            active |-> c.active_creds,
                            inactive |-> c.total_creds - c.active_creds],
     range_health |-> [score |-> scores.range, total |-> c.total_ranges,
                       active |-> c.active_ranges,
                       inactive |-> c.total_ranges - c.active_ranges]]

\* the envelope that _compute_health returns
HealthReport(period, include_recommendations, c, error_rate, scores, health_score) ==
    make_response(TRUE,
        [kind |-> "health",
         summary |-> HealthSummary(period, c, error_rate, health_score),
         sub_metrics |-> SubMetrics(c, scores),
         status |-> StatusLabel(health_score),
         recommendations |-> IF include_recommendations
                             THEN Recommendations(c, error_rate, health_score)
                             ELSE <<>>],
        "Discovery health: " \o ToString(health_score) \o "/100 ("
            \o StatusLabel(health_score) \o ") for " \o period,
        "health", Null)

\* the statements of _compute_health after its queries, in their order: the
\* error rate and the four scores, then the health score, then the report
HealthScored(period, include_recommendations, c, scores) ==
    The({HealthReport(period, include_recommendations, c, error_rate, scores, health_score) :
            error_rate \in {ErrorRate(c.failed, c.total_scans)},
            health_score \in {HealthScore(scores.scan, scores.schedule, scores.cred,
                                          scores.range)}})

HealthOf(period, include_recommendations, c) ==
    HealthScored(period, include_recommendations, c, HealthScores(c))

\* _compute_health
\* _compute_health: the report is a value of the lists that the queries
\* returned, and it is returned when no query raised
_compute_health(period, include_recommendations, answers) ==
    The({Perform(HealthCalls(period, report.data.summary.failed > 0), answers, report) :
            report \in {HealthOf(period, include_recommendations,
                                 HealthCounts(Queried(answers[1]), Queried(answers[2]),
                                              Queried(answers[3]), Queried(answers[4])))}})

\* the try block of get_discovery_health has one except clause, for
\* ServiceNowError: the ValidationError of a scan record leaves the function
HealthExcept(body) ==
    Run(body.sent,
        CASE body.end.how = "return" -> body.end.resp
          [] body.end.how = "ServiceNowError" ->
                Failure("health", body.end.err.message, body.end.err.error_code)
          [] body.end.how = "ValueError" -> Propagated("ValidationError", body.end.msg)
          [] OTHER -> Propagated(body.end.exc, body.end.text))

HealthTool(period, args, answers) ==
    IF period \notin _VALID_PERIODS
    THEN Run(<<>>, Failure("health", "Invalid period: '" \o period \o "'",
                           "VALIDATION_ERROR"))
    ELSE IF ~get_client.ok
    THEN Run(<<>>, Failure("health",
                           "ServiceNow client not available: " \o get_client.err.message,
                           get_client.err.error_code))
    ELSE HealthExcept(_compute_health(period, args.include_recommendations, answers))

\* get_discovery_health
get_discovery_health(args, answers) == HealthTool(lower(strip(args.period)), args, answers)

-----------------------------------------------------------------------------
(* The tools together: inputs, upstream answers, the actions *)

\* the most client calls one handler makes (the health report: scans, schedules,
\* credentials, ranges, error logs)
MaxCalls == 5

StatusArgs(action, scan_sys_id, state) ==
    [tool |-> "status", action |-> action, scan_sys_id |-> scan_sys_id, state |-> state,
     limit |-> 20, date_from |-> Null, date_to |-> Null]

SchedulesListArgs(action, schedule_sys_id) ==
    [tool |-> "schedules_list", action |-> action, schedule_sys_id |-> schedule_sys_id,
     active |-> Null, discover_type |-> Null, name_filter |-> Null, limit |-> 100]

PatternArgs(action, pattern_sys_id, ci_type) ==
    [tool |-> "patterns", action |-> action, pattern_sys_id |-> pattern_sys_id,
     ci_type |-> ci_type, active |-> Null, name_filter |-> Null, limit |-> 100]

ScheduleArgs(action, schedule_sys_id, name, discover_type, ip_ranges) ==
    [tool |-> "schedule", action |-> action, schedule_sys_id |-> schedule_sys_id,
     name |-> name, discover_type |-> discover_type, ip_ranges |-> ip_ranges,
     mid_server |-> Null, max_run_time |-> Str("02:00:00")]

AnalysisArgs(action, scan_sys_id, schedule_sys_id) ==
    [tool |-> "analysis", action |-> action, scan_sys_id |-> scan_sys_id,
     schedule_sys_id |-> schedule_sys_id, last_n_scans |-> 10, date_from |-> Null,
     date_to |-> Null]

CompareArgs(action, scan_a_sys_id, scan_b_sys_id, schedule_sys_id) ==
    [tool |-> "compare", action |-> action, scan_a_sys_id |-> scan_a_sys_id,
     scan_b_sys_id |-> scan_b_sys_id, schedule_sys_id |-> schedule_sys_id, last_n |-> 5]

HealthArgs(period, include_recommendations) ==
    [tool |-> "health", period |-> period,
     include_recommendations |-> include_recommendations]

RemediationArgs(action, scan_sys_id, remediation_type) ==
    [tool |-> "remediation", action |-> action, scan_sys_id |-> scan_sys_id,
     remediation_type |-> remediation_type, target_items |-> Null, confirm |-> FALSE]

\* ip_ranges a caller may pass: none, an empty list, and lists with a valid
\* entry followed by any identifier
IpRangesInputs ==
    {Null, ListOf(<<>>), ListOf(<<Null>>)}
    \cup {ListOf(<<Str(ValidId), id>>) : id \in SysIdInputs}

\* every action that takes an identifier, with every identifier input, and
\* the other actions of the same tools
ToolInvocations ==
    {StatusArgs(a, id, Null) : a \in {"get", "details", " Poll "}, id \in SysIdInputs}
    \cup {StatusArgs("list", Null, st) : st \in {Null, Str("Completed"), Str("done")}}
    \cup {SchedulesListArgs(a, id) : a \in {"get"}, id \in SysIdInputs}
    \cup {SchedulesListArgs(a, Null) : a \in {"list", "summary", "drop"}}
    \cup {PatternArgs("get", id, Null) : id \in SysIdInputs}
    \cup {PatternArgs(a, Null, ci) :
            a \in {"list", "analyze", "coverage"}, ci \in {Null, Str("cmdb_ci_server")}}
    \cup {ScheduleArgs("trigger", id, Null, Null, Null) : id \in SysIdInputs}
    \cup {ScheduleArgs("create", Null, Str("nightly"), Str("IP"), ids) :
            ids \in IpRangesInputs}
    \cup {ScheduleArgs("create", Null, n, ty, ListOf(<<Str("invalid")>>)) :
            n \in {Null, Str("nightly")}, ty \in {Null, Str("ip")}}
    \cup {AnalysisArgs(a, id, id) :
            a \in {"analyze", "errors", "trend", "coverage"}, id \in SysIdInputs}
    \cup {CompareArgs("compare", a, b, Null) :
            a \in SysIdInputs, b \in {Null, Str(ValidId), Str("invalid")}}
    \cup {CompareArgs("compare", Str(ValidId), b, Null) : b \in SysIdInputs}
    \cup {CompareArgs("sequential", Null, Null, id) : id \in SysIdInputs}
    \cup {RemediationArgs(a, id, Null) :
            a \in RemediationActions \ {"bulk_remediate"}, id \in SysIdInputs}
    \cup {RemediationArgs("bulk_remediate", id, ty) :
            id \in SysIdInputs, ty \in {Null, Str("credential")}}
    \cup {CredentialArgs(a, id, Str("web01"), Null, Null, Null, Null, Null, Null) :
            a \in {"get", "update", "delete"}, id \in SysIdInputs}
    \cup {RangeArgs(a, id, Str("lab"), Null, Null, Null) :
            a \in {"get", "update", "delete"}, id \in SysIdInputs}
    \cup {HealthArgs(period, include) :
            period \in {"week", " Day ", "year"}, include \in BOOLEAN}
    \cup {[tool |-> "server_info"]}

\* records as the instance returns them: a well-formed one, one whose name
\* is no text, and one of a failed scan whose message is null
ToolRecord(name, state, message) ==
    [k \in {"sys_id", "name", "state", "message"} |->
         CASE k = "sys_id" -> Str(ValidId)
           [] k = "name" -> name
           [] k = "state" -> state
           [] OTHER -> message]

ToolRecords ==
    {ToolRecord(Str("nightly"), Str("Completed"), Str("Connection timed out")),
     ToolRecord(IntV(7), Str("Completed"), Str("Connection timed out")),
     ToolRecord(Str("nightly"), Str(" Error "), Null)}

CallAnswers ==
    TransportErrors
    \cup {Ok(RecordData(r)) : r \in ToolRecords}
    \cup {Ok(ListData(rs)) : rs \in SeqsUpTo(ToolRecords, 1)}

\* what every client method accepts as a result
UsualAnswer == Ok(ListData(<<[k \in {"sys_id", "name"} |->
                                 IF k = "sys_id" THEN Str(ValidId) ELSE Str("nightly")]>>))

\* the answers to the calls of one invocation: at most one is unusual
AnswerScripts ==
    {[i \in 1..MaxCalls |-> UsualAnswer]}
    \cup {[i \in 1..MaxCalls |-> IF i = k THEN answer ELSE UsualAnswer] :
            k \in 1..MaxCalls, answer \in CallAnswers}

\* get_server_info: the metadata of the server, not an envelope; it makes no
\* client call
get_server_info ==
    IF config
    THEN [server_name |-> Str("snow-discovery-agent"), status |-> Str("running"),
          instance_hostname |-> Str("instance"), config_loaded |-> Bool(TRUE),
          client_ready |-> Bool(client)]
    ELSE [server_name |-> Str("snow-discovery-agent"), status |-> Str("running"),
          instance_hostname |-> Null, config_loaded |-> Bool(FALSE),
          config_error |-> config_error, client_ready |-> Bool(client)]

\* the tool function that an invocation names
ToolRun(args, answers) ==
    CASE args.tool = "status" -> get_discovery_status(args, answers)
      [] args.tool = "schedules_list" -> list_discovery_schedules(args, answers)
      [] args.tool = "patterns" -> get_discovery_patterns(args, answers)
      [] args.tool = "schedule" -> schedule_discovery_scan(args, answers)
      [] args.tool = "analysis" -> analyze_discovery_results(args, answers)
      [] args.tool = "compare" -> compare_discovery_runs(args, answers)
      [] args.tool = "health" -> get_discovery_health(args, answers)
      [] args.tool = "server_info" -> Run(<<>>, get_server_info)
      [] OTHER -> remediate_discovery_failures(args, answers)

\* one of these tool functions runs to its end
RunTool ==
    /\ pc = "called"
    /\ inv.tool \notin {"credentials", "ranges"}
    /\ \E answers \in AnswerScripts :
           LET run == ToolRun(inv, answers)
           IN  Returns(run, answers)

ToolsNext ==
    \/ \E outcome \in InitOutcomes : Startup(outcome)
    \/ \E args \in ToolInvocations : Invoke(args)
    \/ ManageDiscoveryCredentials
    \/ ManageDiscoveryRanges
    \/ RunTool

SpecTools == ToolInit /\ [][ToolsNext]_vars

\* the identifier inputs that are missing, blank, or not 32 hexadecimal
\* characters once trimmed
MalformedIds ==
    {v \in SysIdInputs :
        ~(IsStr(v) /\ Len(strip(v.s)) = SYS_ID_LEN /\ AllHex(strip(v.s)))}

\* the record identifiers that the action of an invocation requires
RequiredIds(args) ==
    LET action == lower(strip(args.action))
    IN  CASE args.tool \in {"credentials", "ranges"}
                  /\ action \in {"get", "update", "delete"} -> {args.sys_id}
          [] args.tool = "status" /\ action \in {"get", "details", "poll"} ->
                {args.scan_sys_id}
          [] args.tool \in {"schedules_list", "schedule"} /\ action \in {"get", "trigger"} ->
                {args.schedule_sys_id}
          [] args.tool = "schedule" /\ action = "create" /\ ~IsNull(args.ip_ranges) ->
                SeqRange(args.ip_ranges.items)
          [] args.tool = "patterns" /\ action = "get" -> {args.pattern_sys_id}
          [] args.tool = "analysis" /\ action \in {"analyze", "errors"} ->
                {args.scan_sys_id}
          [] args.tool = "analysis" /\ action = "coverage" -> {args.schedule_sys_id}
          [] args.tool = "compare" /\ action = "compare" ->
                {args.scan_a_sys_id, args.scan_b_sys_id}
          [] args.tool = "compare" /\ action = "sequential" -> {args.schedule_sys_id}
          [] args.tool = "remediation" /\ action \in RemediationActions ->
                {args.scan_sys_id}
          [] OTHER -> {}

\* an invocation has returned whose action requires an identifier that is
\* malformed
ReturnedForMalformedId ==
    /\ pc = "idle"
    /\ inv.tool # "none"
    /\ RequiredIds(inv) \cap MalformedIds # {}

\* C8 as stated: an action given a missing, blank or malformed required
\* identifier returns success=false with error VALIDATION_ERROR and sends no
\* request.
C8_Original ==
    ReturnedForMalformedId =>
        /\ ~resp.success
        /\ resp.error = Str("VALIDATION_ERROR")
        /\ sent = <<>>

\* C8, amended: an action given a missing, blank or malformed required
\* identifier returns success=false and sends no request; its error is
\* VALIDATION_ERROR when the server has a client and CLIENT_NOT_CONFIGURED
\* when it has none, the client being looked up before the identifier.
C8_IdValidation ==
    ReturnedForMalformedId =>
        /\ ~resp.success
        /\ sent = <<>>
        /\ resp.error = IF get_client.ok THEN Str("VALIDATION_ERROR")
                        ELSE Str("CLIENT_NOT_CONFIGURED")

\* with a client, a compare whose first scan is well formed and whose second
\* has a character that is no hexadecimal digit is refused
C8_Witness ==
    /\ ReturnedForMalformedId
    /\ get_client.ok
    /\ inv.tool = "compare"
    /\ inv.scan_a_sys_id = Str(ValidId)
    /\ inv.scan_b_sys_id = Str("g" \o SubSeq(ValidId, 2, 32))
    /\ resp.error = Str("VALIDATION_ERROR")
    /\ sent = <<>>

-----------------------------------------------------------------------------
(* The envelope and the errors of a tool invocation *)

\* a tool function has handed something back to its caller
Returned == pc = "idle" /\ inv.tool # "none"

EnvelopeKeys == {"success", "data", "message", "action", "error"}

\* the transport raised during the invocation: the last answer that the
\* tool consumed is an error of the taxonomy
TransportRaised == upstream # <<>> /\ ~upstream[Len(upstream)].ok

RaisedByTransport == upstream[Len(upstream)].err

\* an exception left the tool function: its caller got no envelope
ExceptionEscaped == Returned /\ "raised" \in DOMAIN resp

\* C11 as stated: every tool invocation returns a map with exactly the keys
\* success, data, message, action, error, in which success is true if and
\* only if error is null.  It fails where C13 fails: an invocation that an
\* exception leaves returns no map at all (and get_server_info, which takes
\* no action, returns the server's metadata).
C11_Original ==
    Returned =>
        /\ DOMAIN resp = EnvelopeKeys
        /\ resp.success <=> resp.error = Null

\* C12: whenever the transport raises an error of the taxonomy during a tool
\* action, the tool returns success=false with the error's error_code as
\* error and its message as message; no such exception leaves the tool.
C12_TaxonomyReported ==
    (Returned /\ TransportRaised) =>
        /\ DOMAIN resp = EnvelopeKeys
        /\ ~resp.success
        /\ resp.error = Str(RaisedByTransport.error_code)
        /\ resp.message = RaisedByTransport.message

\* the health report's fourth query is refused with a rate limit
C12_Witness ==
    /\ Returned
    /\ TransportRaised
    /\ inv.tool = "health"
    /\ Len(upstream) = 4
    /\ RaisedByTransport.kind = "RateLimit"
    /\ resp.error = Str("RATE_LIMIT_ERROR")
    /\ resp.message = "transport: RateLimit"

\* C13 as stated: an exception that is neither of the taxonomy nor a local
\* validation error is caught at the outermost boundary and surfaced as a
\* response; it does not propagate to the caller.  handle_tool_error is
\* called by no tool and no wrapper, so such an exception does propagate.
C13_Original == ~ExceptionEscaped

-----------------------------------------------------------------------------
(* The health report over collections of given sizes *)

\* the most records of one collection, apart from the larger collections below
MaxCount == 3

\* larger collections, whose quotients are no binary fractions:
\* <<part, total>>
LargeCounts == {<<29, 50>>}

\* <<part, total>> of a collection: how many of its records are failed scans,
\* or active
CountPairs ==
    {p \in (0..MaxCount) \X (0..MaxCount) : p[1] <= p[2]} \cup LargeCounts

\* the sizes that the credentials and the ranges are drawn from: an empty
\* collection, and ones with every, a third of and none of the records active
FewCounts == {<<0, 0>>, <<1, 1>>, <<1, 3>>, <<0, 1>>}

HealthRecord(state, active) ==
    [k \in {"sys_id", "name", "state", "active"} |->
         CASE k = "sys_id" -> Str(ValidId)
           [] k = "name" -> Str("nightly")
           [] k = "state" -> state
           [] OTHER -> active]

\* the scans of the window: the first `failed` of them ended in Error
ScanList(failed, total) ==
    [i \in 1..total |->
         HealthRecord(IF i <= failed THEN Str("Error") ELSE Str("Completed"), Null)]

\* schedules, credentials or ranges: the first `active` of them are active
ActiveList(active, total) ==
    [i \in 1..total |->
         HealthRecord(Null, IF i <= active THEN Str("true") ELSE Str("false"))]

\* the answers to the queries of _compute_health, none of which raises
HealthAnswerScripts ==
    {<<Ok(ListData(ScanList(scans[1], scans[2]))),
       Ok(ListData(ActiveList(schedules[1], schedules[2]))),
       Ok(ListData(ActiveList(creds[1], creds[2]))),
       Ok(ListData(ActiveList(ranges[1], ranges[2]))),
       UsualAnswer>> :
        scans \in CountPairs, schedules \in CountPairs, creds \in FewCounts,
        ranges \in FewCounts}

HealthInvocations ==
    {HealthArgs(period, include) :
        period \in {" Day ", "year"}, include \in BOOLEAN}

\* get_discovery_health runs to its end
RunHealth ==
    /\ pc = "called"
    /\ inv.tool = "health"
    /\ \E answers \in HealthAnswerScripts :
           Returns(get_discovery_health(inv, answers), answers)

HealthNext ==
    \/ \E outcome \in InitOutcomes : Startup(outcome)
    \/ \E args \in HealthInvocations : Invoke(args)
    \/ RunHealth

SpecHealth == ToolInit /\ [][HealthNext]_vars

\* get_discovery_health has returned a report
HealthReported ==
    /\ Returned
    /\ inv.tool = "health"
    /\ DOMAIN resp = EnvelopeKeys
    /\ resp.success

\* the integers that the quotient num / den rounds to (both neighbours when it
\* lies half way between them)
RoundedTo(num, den) == {q \in 0..(num \div den + 1) : 2 * Abs(num - q * den) <= den}

\* "50 when the collection is empty and otherwise 100*active/total rounded to
\* an integer"
StatedRatioScores(part) ==
    IF part.total = 0 THEN {50} ELSE RoundedTo(100 * part.active, part.total)

\* "max(0, 100 - 2*error_rate)" with error_rate = failed/total*100, as a
\* fraction over `total` (over 1 when there are no scans)
StatedScanScoreTimes(total, failed) ==
    IF total = 0 THEN 100 ELSE Max(0, 100 * total - 200 * failed)

\* "round(scan_score*0.4 + schedule_score*0.2 + credential_score*0.2 +
\* range_score*0.2) clamped to [0,100]", of the scores that the report gives
\* for the three collections
StatedHealthScores(m) ==
    {Max(0, Min(100, q)) :
        q \in RoundedTo(2 * StatedScanScoreTimes(m.scan_health.total_scans,
                                                 m.scan_health.failed)
                           + Max(1, m.scan_health.total_scans)
                              * (m.schedule_health.score + m.credential_health.score
                                 + m.range_health.score),
                        5 * Max(1, m.scan_health.total_scans))}

HealthAsStated(summary, m) ==
    /\ m.scan_health.score * Max(1, m.scan_health.total_scans)
          = StatedScanScoreTimes(m.scan_health.total_scans, m.scan_health.failed)
    /\ m.schedule_health.score \in StatedRatioScores(m.schedule_health)
    /\ m.credential_health.score \in StatedRatioScores(m.credential_health)
    /\ m.range_health.score \in StatedRatioScores(m.range_health)
    /\ summary.health_score \in StatedHealthScores(m)

\* C14 as stated: the health score is the rounded weighted sum of the four
\* scores, clamped to [0,100], the scan score being max(0, 100 - 2*error_rate)
\* and each other score 50 for an empty collection and otherwise
\* 100*active/total rounded to an integer.  The code truncates with int() where
\* the claim rounds, and computes in doubles: with no scans, schedules and
\* credentials and one of three ranges active the report gives 66, not 67.
C14_Original ==
    HealthReported => HealthAsStated(resp.data.summary, resp.data.sub_metrics)

\* the records that the i-th query of the invocation returned
Answered(i) == upstream[i].value.items

\* the window had no scans, so the report made its four queries
ReportedNoScans == HealthReported /\ Len(upstream) = 4 /\ Answered(1) = <<>>

AllEmpty == \A i \in 2..4 : Answered(i) = <<>>

OneActiveEach == \A i \in 2..4 : Answered(i) = ActiveList(1, 1)

\* C15: with zero scans the scan score is 100; with empty schedule,
\* credential and range collections as well the health score is 70; with
\* zero scans and exactly one active schedule, credential and range it is 100.
C15_NoScans ==
    ReportedNoScans =>
        /\ resp.data.sub_metrics.scan_health.score = 100
        /\ AllEmpty => resp.data.summary.health_score = 70
        /\ OneActiveEach => resp.data.summary.health_score = 100

\* nothing at all in the window: 70, a warning
C15_Witness ==
    /\ ReportedNoScans
    /\ AllEmpty
    /\ resp.data.sub_metrics.scan_health.score = 100
    /\ resp.data.summary.health_score = 70
    /\ resp.data.status = "warning"

-----------------------------------------------------------------------------
(* The trend over scans of given CI counts *)

\* the most scans that the trend query returns
MaxScans == 5

\* the CI counts of the scans
CiValues == {7, 8, 10, 30}

\* a scan as the instance returns it: ci_count is text
TrendRecord(ci_count) ==
    [k \in {"sys_id", "name", "state", "ci_count"} |->
         CASE k = "sys_id" -> Str(ValidId)
           [] k = "name" -> Str("nightly")
           [] k = "state" -> Str("Completed")
           [] OTHER -> Str(ToString(ci_count))]

\* the answers to the query of _action_trend: scans newest first
TrendAnswerScripts ==
    {<<Ok(ListData([i \in 1..Len(counts) |-> TrendRecord(counts[i])]))>> :
        counts \in SeqsUpTo(CiValues, MaxScans)}

TrendInvocations ==
    {AnalysisArgs("trend", Null, id) : id \in {Null, Str("invalid")}}

\* analyze_discovery_results runs to its end
RunTrend ==
    /\ pc = "called"
    /\ inv.tool = "analysis"
    /\ \E answers \in TrendAnswerScripts :
           Returns(analyze_discovery_results(inv, answers), answers)

TrendNext ==
    \/ \E outcome \in InitOutcomes : Startup(outcome)
    \/ \E args \in TrendInvocations : Invoke(args)
    \/ RunTrend

SpecTrend == ToolInit /\ [][TrendNext]_vars

\* the trend action has returned a result for the scans that it found
TrendReported ==
    /\ Returned
    /\ inv.tool = "analysis"
    /\ DOMAIN resp = EnvelopeKeys
    /\ resp.success
    /\ Len(upstream) = 1

\* the CI counts of the scans found, newest first
CountsFound == [i \in 1..Len(Answered(1)) |-> ParseInt(Answered(1)[i]["ci_count"].s).n]

\* the sums of the newer half (the first floor(n/2) entries) and of the older
\* half (the rest)
NewerSum(counts) == SumOf(SubSeq(counts, 1, Len(counts) \div 2))
OlderSum(counts) == SumOf(SubSeq(counts, Len(counts) \div 2 + 1, Len(counts)))

\* "improving" exactly when the newer average is more than 10% above the
\* older one, "degrading" exactly when it is more than 10% below: the
\* averages compared exactly, cross-multiplied by the sizes of the halves
StatedTrend(counts) ==
    IF 10 * NewerSum(counts) * (Len(counts) - Len(counts) \div 2)
         > 11 * OlderSum(counts) * (Len(counts) \div 2)
    THEN "improving"
    ELSE IF 10 * NewerSum(counts) * (Len(counts) - Len(counts) \div 2)
              < 9 * OlderSum(counts) * (Len(counts) \div 2)
    THEN "degrading"
    ELSE "stable"

\* C17 as stated: over n >= 2 scans, newest first, trend_direction is
\* "improving" exactly when the average of the newer half (the first
\* floor(n/2) scans) is more than 10% above that of the older half,
\* "degrading" exactly when it is more than 10% below, "stable" otherwise.
\* The code compares doubles: for [7, 8, 7, 8, 10] the newer average 7.5 is
\* exactly 90% of the older 25/3, and the code reports "degrading".
C17_Original ==
    (TrendReported /\ Len(Answered(1)) >= 2) =>
        resp.data.trend_direction = StatedTrend(CountsFound)

\* C18 as stated: with fewer than 2 scans (zero or one) the result reports the
\* trend direction "insufficient_data".  With no scan at all the result has
\* no trend direction.
C18_Original ==
    (TrendReported /\ Len(Answered(1)) < 2) =>
        /\ "trend_direction" \in DOMAIN resp.data
        /\ resp.data.trend_direction = "insufficient_data"

\* C18, amended: with exactly one scan the result reports the trend
\* direction "insufficient_data"; with no scan it is a success whose data is
\* an empty list of scans and the trend "no_data", without a trend direction.
C18_FewScans ==
    /\ (TrendReported /\ Len(Answered(1)) = 1) =>
           /\ "trend_direction" \in DOMAIN resp.data
           /\ resp.data.trend_direction = "insufficient_data"
    /\ (TrendReported /\ Len(Answered(1)) = 0) =>
           /\ "trend_direction" \notin DOMAIN resp.data
           /\ resp.data.scans = <<>>
           /\ resp.data.trend = "no_data"

\* a single scan of 30 CIs
C18_Witness ==
    /\ TrendReported
    /\ Len(Answered(1)) = 1
    /\ CountsFound = <<30>>
    /\ resp.data.scan_count = 1
    /\ resp.data.trend_direction = "insufficient_data"

-----------------------------------------------------------------------------
(* The categories of the errors of a scan *)

\* the most words of a log message
MaxWords == 2

\* words of log messages: keywords of the categories, in either case, and
\* words that are no keywords
Words ==
    {"SNMP", "timeout", "Login", "unreachable", "community string", "port scan",
     "classify", "ssh", "WMI", "host", "failed"}

\* the messages of up to MaxWords words
ErrorMessages == {Join(" ", words) : words \in SeqsUpTo(Words, MaxWords)}

LogRecord(message) ==
    [k \in {"sys_id", "level", "message"} |->
         CASE k = "sys_id" -> Str(ValidId)
           [] k = "level" -> Str("Error")
           [] OTHER -> Str(message)]

\* the answers to the query of _action_errors: the log of one message, and
\* logs of three messages
ErrorsAnswerScripts ==
    {<<Ok(ListData(<<LogRecord(message)>>))>> : message \in ErrorMessages}
    \cup {<<Ok(ListData([i \in 1..3 |-> LogRecord(messages[i])]))>> :
            messages \in [1..3 -> {"SNMP timeout", "ssh failed", "host failed"}]}

ErrorsInvocations == {AnalysisArgs("errors", id, Null) : id \in {Null, Str(ValidId)}}

\* analyze_discovery_results runs to its end
RunErrors ==
    /\ pc = "called"
    /\ inv.tool = "analysis"
    /\ \E answers \in ErrorsAnswerScripts :
           Returns(analyze_discovery_results(inv, answers), answers)

ErrorsNext ==
    \/ \E outcome \in InitOutcomes : Startup(outcome)
    \/ \E args \in ErrorsInvocations : Invoke(args)
    \/ RunErrors

SpecErrors == ToolInit /\ [][ErrorsNext]_vars

\* the errors action has returned the categories of the logs that it found
ErrorsReported ==
    /\ Returned
    /\ inv.tool = "analysis"
    /\ DOMAIN resp = EnvelopeKeys
    /\ resp.success
    /\ resp.data.kind = "errors"

\* the fixed order of the categories
StatedOrder ==
    <<"credential_failure", "network_timeout", "classification_failure",
      "port_scan_failure", "snmp_failure", "ssh_failure", "wmi_failure">>

KeywordsOf(category) ==
    (CHOOSE entry \in SeqRange(_ERROR_CATEGORIES) : entry.category = category).keywords

\* the category has a keyword that the lowercased message contains
HasKeyword(category, message) == AnyKeyword(KeywordsOf(category), lower(message))

\* the category is the first of the fixed order with a keyword in the
\* message, or it is "other" and no category has one
FirstInOrder(category, message) ==
    \/ /\ category = "other"
       /\ \A p \in 1..Len(StatedOrder) : ~HasKeyword(StatedOrder[p], message)
    \/ \E p \in 1..Len(StatedOrder) :
           /\ category = StatedOrder[p]
           /\ HasKeyword(category, message)
           /\ \A q \in 1..(p - 1) : ~HasKeyword(StatedOrder[q], message)

SnmpSpecific(message) == HasKeyword("snmp_failure", message)

\* C20 as stated: a message that contains an SNMP keyword is categorized as
\* the SNMP category and never as the network/timeout category, also when it
\* contains "timeout" or "unreachable".  network_timeout precedes
\* snmp_failure in the dict, so "SNMP timeout" is a network_timeout.
C20_Original ==
    ErrorsReported =>
        \A i \in 1..Len(resp.data.errors) :
            SnmpSpecific(resp.data.errors[i].message) =>
                /\ resp.data.errors[i].category = "snmp_failure"
                /\ resp.data.errors[i].category # "network_timeout"

-----------------------------------------------------------------------------
(* The comparison of scans *)

\* the most Error logs of one scan
MaxLogs == 2

\* a text of 100 characters
Hundred ==
    "0123456789012345678901234567890123456789012345678901234567890123456789012345678901234567890123456789"

\* the messages of the logs: short ones, one with a trailing blank, and two
\* that differ after their first 100 characters only
CompareMessages == {"X", "Y", "X ", Hundred \o "1", Hundred \o "2"}

\* the CI counts of scan A and of scan B
CompareCounts == {<<40, 45>>, <<45, 40>>}

\* the answers to the calls of _action_compare: scan A, its Error logs, scan
\* B, its Error logs (none or one)
CompareAnswerScripts ==
    {<<Ok(RecordData(TrendRecord(counts[1]))),
       Ok(ListData([i \in 1..Len(logs_a) |-> LogRecord(logs_a[i])])),
       Ok(RecordData(TrendRecord(counts[2]))),
       Ok(ListData([i \in 1..Len(logs_b) |-> LogRecord(logs_b[i])]))>> :
        counts \in CompareCounts,
        logs_a \in SeqsUpTo(CompareMessages, MaxLogs),
        logs_b \in {<<>>} \cup {<<message>> : message \in CompareMessages}}

\* the answers that an invocation is run with: those of compare, or the
\* scans of a schedule, newest first
CompareScriptsFor(args) ==
    IF lower(strip(args.action)) = "compare" THEN CompareAnswerScripts
    ELSE TrendAnswerScripts

CompareInvocations ==
    {CompareArgs("compare", Str(ValidId), b, Null) : b \in {Str(ValidId), Str("invalid")}}
    \cup {CompareArgs(" Sequential ", Null, Null, id) : id \in {Null, Str(ValidId)}}

\* compare_discovery_runs runs to its end
RunCompare ==
    /\ pc = "called"
    /\ inv.tool = "compare"
    /\ \E answers \in CompareScriptsFor(inv) :
           Returns(compare_discovery_runs(inv, answers), answers)

CompareNext ==
    \/ \E outcome \in InitOutcomes : Startup(outcome)
    \/ \E args \in CompareInvocations : Invoke(args)
    \/ RunCompare

SpecCompare == ToolInit /\ [][CompareNext]_vars

\* compare has returned the comparison of two scans
CompareReported ==
    /\ Returned
    /\ inv.tool = "compare"
    /\ DOMAIN resp = EnvelopeKeys
    /\ resp.success
    /\ resp.data.kind = "compare"

\* the first 100 characters of a message
StatedKey(message) == SubSeq(message, 1, Min(100, Len(message)))

\* the keys of the Error logs that the i-th query returned, and how many of
\* these logs have a key
KeysFound(i) == {StatedKey(Answered(i)[n]["message"].s) : n \in 1..Len(Answered(i))}

CountFound(i, key) ==
    Cardinality({n \in 1..Len(Answered(i)) : StatedKey(Answered(i)[n]["message"].s) = key})

\* the list (a bag of entries) has an entry for the key, with the counts of
\* the key in A and in B
ListsKey(list, key) ==
    \E d \in DOMAIN list :
        /\ d.message = key
        /\ d.count_a = CountFound(2, key)
        /\ d.count_b = CountFound(4, key)

\* the key is in the list that its counts ask for, and in no other
KeyInItsList(data, key) ==
    /\ ListsKey(data.errors_new, key)
          <=> (CountFound(2, key) = 0 /\ CountFound(4, key) > 0)
    /\ ListsKey(data.errors_resolved, key)
          <=> (CountFound(2, key) > 0 /\ CountFound(4, key) = 0)
    /\ ListsKey(data.errors_persistent, key)
          <=> (CountFound(2, key) > 0 /\ CountFound(4, key) > 0)
    /\ \A d \in DOMAIN data.errors_new \cup DOMAIN data.errors_resolved
                 \cup DOMAIN data.errors_persistent :
           d.message = key => (d.count_a = CountFound(2, key) /\ d.count_b = CountFound(4, key))

\* C21 as stated: Error logs are keyed by the first 100 characters of their
\* message and counted per scan; every key of A or B is in exactly one of
\* errors_new (only in B), errors_resolved (only in A) and errors_persistent
\* (in both, with both counts); delta_ci_count and delta_error_count are B
\* minus A.  ErrorDelta strips the message while the keys are not stripped:
\* "X " in A and "X" in B gives "X" as resolved and "X" as new.
C21_Original ==
    CompareReported =>
        /\ \A key \in KeysFound(2) \cup KeysFound(4) : KeyInItsList(resp.data, key)
        /\ resp.data.delta_ci_count
              = ParseInt(upstream[3].value.rec["ci_count"].s).n
                  - ParseInt(upstream[1].value.rec["ci_count"].s).n
        /\ resp.data.delta_error_count = Len(Answered(4)) - Len(Answered(2))

-----------------------------------------------------------------------------
(* tools/utils.py: paginate, and the requests of query_table *)

\* ServiceNowClient.query_table: what it returns for the answer of get, the
\* rows of a list and no rows for anything else
QueryTableRows(answer) ==
    IF answer.value.kind = "list" THEN answer.value.items ELSE <<>>

\* mutant: paginate stops at an empty page only
LastPageOnlyEmpty(records, limit) == records = <<>>

\* paginate: the page ends the loop
LastPage(records, limit) == records = <<>> \/ Len(records) < limit

\* what paginate returns, and the exception that leaves it
Rows(records) == [kind |-> "rows", rows |-> records]

\* paginate: the loop from page `page` on, `requests` issued and
\* `all_records` collected so far
RECURSIVE PaginateFrom(_, _, _, _, _)
PaginateFrom(args, answers, page, requests, all_records) ==
    IF page >= args.max_pages THEN Run(requests, Rows(all_records))
    ELSE LET request == query_table(args.table, args.query, args.fields, args.limit,
                                    page * args.limit, args.order_by)
             answer == answers[page + 1]
         IN  IF ~answer.ok
             THEN Run(Append(requests, request),
                      Propagated(answer.err.kind, answer.err.message))
             ELSE IF LastPage(QueryTableRows(answer), args.limit)
                  THEN Run(Append(requests, request),
                           Rows(all_records \o QueryTableRows(answer)))
                  ELSE PaginateFrom(args, answers, page + 1, Append(requests, request),
                                    all_records \o QueryTableRows(answer))

paginate(args, answers) == PaginateFrom(args, answers, 0, <<>>, <<>>)

\* the ceiling of pages and the rows of a page
MaxPages == 3
MaxRows == 3

PageRow(n) == [k \in {"sys_id"} |-> Str(ToString(n))]

\* the answers of the instance to one page: rows, a single record, an error
PageAnswers ==
    {Ok(ListData([i \in 1..n |-> PageRow(i)])) : n \in 0..MaxRows}
    \cup {Ok(RecordData(PageRow(0))), Raises("Connection")}

PageScripts(max_pages) == {q \in SeqsUpTo(PageAnswers, max_pages) : Len(q) = max_pages}

PaginateArgs(query, fields, limit, max_pages, order_by) ==
    [tool |-> "paginate", table |-> "discovery_status", query |-> query,
     fields |-> fields, limit |-> limit, max_pages |-> max_pages, order_by |-> order_by]

PaginateInvocations ==
    {PaginateArgs(query, fields, limit, max_pages, order_by) :
        query \in {Null, Str(""), Str("active=true")},
        fields \in {<<>>, <<"sys_id", "name">>},
        limit \in {1, 2},
        max_pages \in 0..MaxPages,
        order_by \in {Null, Str(""), Str("sys_created_on"), Str("-sys_created_on"), Str("-")}}

\* paginate runs to its end
RunPaginate ==
    /\ pc = "called"
    /\ inv.tool = "paginate"
    /\ \E answers \in PageScripts(inv.max_pages) : Returns(paginate(inv, answers), answers)

PaginateNext ==
    \/ \E args \in PaginateInvocations : Invoke(args)
    \/ RunPaginate

SpecPaginate == ToolInit /\ [][PaginateNext]_vars

\* paginate has ended, by a return or by an exception
Paginated == Returned /\ inv.tool = "paginate"

\* an argument that is given: neither None nor empty
Given(arg) == arg # Null /\ arg # Str("")

\* the clause of an order_by
StatedClause(order_by) ==
    IF SubSeq(order_by, 1, 1) = "-" THEN "ORDERBYDESC" \o SubSeq(order_by, 2, Len(order_by))
    ELSE "ORDERBY" \o order_by

\* the sysparm_query of a request is the stated one
StatedQuery(params, query, order_by) ==
    /\ (Given(query) /\ Given(order_by))
          => params["sysparm_query"] = Str(query.s \o "^" \o StatedClause(order_by.s))
    /\ (~Given(query) /\ Given(order_by))
          => params["sysparm_query"] = Str(StatedClause(order_by.s))

\* C22: every request of query_table carries sysparm_limit and
\* sysparm_offset; when order_by is given its sysparm_query is the query, "^"
\* and the clause ORDERBY{field}, or ORDERBYDESC{field} without the leading
\* "-", and the clause alone when no query was given.
C22_QueryParams ==
    Paginated =>
        \A i \in 1..Len(sent) :
            /\ {"sysparm_limit", "sysparm_offset"} \subseteq DOMAIN sent[i].body
            /\ sent[i].body["sysparm_limit"] = Str(ToString(inv.limit))
            /\ "sysparm_query" \in DOMAIN sent[i].body <=> (Given(inv.query) \/ Given(inv.order_by))
            /\ StatedQuery(sent[i].body, inv.query, inv.order_by)

\* query "active=true" with order_by "-sys_created_on" was sent as
\* "active=true^ORDERBYDESCsys_created_on"
C22_Witness ==
    /\ Paginated
    /\ inv.query = Str("active=true")
    /\ inv.order_by = Str("-sys_created_on")
    /\ Len(sent) > 0
    /\ sent[1].body["sysparm_query"] = Str("active=true^ORDERBYDESCsys_created_on")

\* the rows of the i-th page as paginate sees them
PageFound(i) == IF upstream[i].value.kind = "list" THEN upstream[i].value.items ELSE <<>>

RECURSIVE Concatenation(_)
Concatenation(n) == IF n = 0 THEN <<>> ELSE Concatenation(n - 1) \o PageFound(n)

\* the page is empty or has fewer rows than the page size
ShortPage(i) == Len(PageFound(i)) < inv.limit \/ PageFound(i) = <<>>

\* C26: paginate calls query_table with the offsets 0, L, 2L, ... in
\* increasing order, at most M times; it stops after the first page that is
\* empty or has fewer than L rows, or after M calls, and returns the pages
\* it fetched, concatenated in the order of the calls.
C26_Paginate ==
    Paginated =>
        /\ Len(sent) <= inv.max_pages
        /\ \A i \in 1..Len(sent) :
               sent[i].body["sysparm_offset"] = Str(ToString((i - 1) * inv.limit))
        /\ \A i \in 1..(Len(sent) - 1) : upstream[i].ok /\ ~ShortPage(i)
        /\ ~ExceptionEscaped =>
               /\ resp = Rows(Concatenation(Len(sent)))
               /\ Len(sent) = inv.max_pages \/ ShortPage(Len(sent))

\* paginate fetched two pages, the second one short, and returned both
C26_Witness ==
    /\ Paginated
    /\ ~ExceptionEscaped
    /\ Len(sent) = 2
    /\ inv.max_pages > 2
    /\ Len(PageFound(1)) = inv.limit
    /\ PageFound(2) # <<>>
    /\ Len(resp.rows) = Len(PageFound(1)) + Len(PageFound(2))

-----------------------------------------------------------------------------
(* Remediation: what an action sends and what its plan says *)

RemediationInvocations ==
    {[tool |-> "remediation", action |-> a, scan_sys_id |-> id, remediation_type |-> ty,
      target_items |-> Null, confirm |-> confirm] :
        a \in RemediationActions \cup {" Credential_Fix "},
        id \in {Str(ValidId), Str("invalid")},
        ty \in {Null, Str("credential")},
        confirm \in BOOLEAN}

\* remediate_discovery_failures runs to its end
RunRemediation ==
    /\ pc = "called"
    /\ inv.tool = "remediation"
    /\ \E answers \in AnswerScripts :
           Returns(remediate_discovery_failures(inv, answers), answers)

RemediationNext ==
    \/ \E outcome \in InitOutcomes : Startup(outcome)
    \/ \E args \in RemediationInvocations : Invoke(args)
    \/ RunRemediation

SpecRemediation == ToolInit /\ [][RemediationNext]_vars

MutatingMethods == {"POST", "PUT", "PATCH", "DELETE"}

\* a remediation action has returned a plan
PlanReturned ==
    /\ Returned
    /\ inv.tool = "remediation"
    /\ DOMAIN resp = EnvelopeKeys
    /\ resp.success

\* C23: an invocation of a remediation action with confirm = false sends no
\* POST, PUT, PATCH or DELETE to any table, and the plan that credential_fix
\* or bulk_remediate returns has dry_run = true exactly when confirm is
\* false.
C23_DryRun ==
    /\ (Returned /\ inv.tool = "remediation" /\ ~inv.confirm)
          => \A i \in 1..Len(sent) : sent[i].method \notin MutatingMethods
    /\ (PlanReturned /\ resp.action \in {"credential_fix", "bulk_remediate"})
          => (resp.data["dry_run"] = Bool(TRUE) <=> ~inv.confirm)

\* credential_fix has read the scan, its logs and the credential table with
\* confirm = false and returned a dry-run plan
C23_Witness ==
    /\ PlanReturned
    /\ resp.action = "credential_fix"
    /\ ~inv.confirm
    /\ Len(sent) = 3
    /\ sent[3].table = CREDENTIAL_TABLE
    /\ resp.data["dry_run"] = Bool(TRUE)

-----------------------------------------------------------------------------
(* The writes of the tools, and the order of the calls of trigger *)

\* the requests of the last invocation that write
Writes == SelectSeq(sent, LAMBDA r : r.method \in MutatingMethods)

\* the trigger action has run for a schedule id that passed validation
Triggered ==
    /\ Returned
    /\ inv.tool = "schedule"
    /\ lower(strip(inv.action)) = "trigger"
    /\ sent # <<>>

\* the PATCH of trigger: on the schedule that was named, setting active
ActivatesSchedule(r) ==
    /\ r.method = "PATCH"
    /\ r.table = "discovery_schedule"
    /\ r.id = Str(strip(inv.schedule_sys_id.s))
    /\ r.body = [k \in {"active"} |-> Str("true")]

\* C24: no invocation of a tool sends a POST, PUT, PATCH or DELETE to
\* discovery_status, and the only write of trigger is one PATCH of the
\* discovery_schedule record that sets active to "true".
C24_Writes ==
    /\ \A i \in 1..Len(sent) :
           sent[i].method \in MutatingMethods => sent[i].table # "discovery_status"
    /\ Triggered =>
           /\ Len(Writes) <= 1
           /\ \A i \in 1..Len(Writes) : ActivatesSchedule(Writes[i])
           /\ resp.success => Len(Writes) = 1

\* trigger has activated the schedule and read its latest scan from
\* discovery_status
C24_Witness ==
    /\ Triggered
    /\ resp.success
    /\ Len(Writes) = 1
    /\ sent[3].method = "GET"
    /\ sent[3].table = "discovery_status"

\* the lookup of the schedule succeeded: the record came back and
\* DiscoverySchedule accepted it
LookupSucceeded ==
    /\ upstream[1].ok
    /\ upstream[1].value.kind = "record"
          \/ (upstream[1].value.kind = "list" /\ upstream[1].value.items # <<>>)
    /\ ModelValid("DiscoverySchedule", Fetched(upstream[1]))

\* C25: trigger fetches the schedule by id, then sends PATCH {active:
\* "true"} on it, then queries the most recent scan of the schedule; the
\* PATCH is sent only after the fetch succeeded, a failed lookup gives
\* success = false without a PATCH, and a failure of the scan query leaves
\* the PATCH sent.
C25_TriggerOrder ==
    Triggered =>
        /\ Len(sent) <= 3
        /\ sent[1].method = "GET" /\ sent[1].table = "discovery_schedule"
        /\ sent[1].id = Str(strip(inv.schedule_sys_id.s))
        /\ Len(sent) >= 2 => (ActivatesSchedule(sent[2]) /\ LookupSucceeded)
        /\ Len(sent) = 3 =>
               /\ sent[3].method = "GET" /\ sent[3].table = "discovery_status"
               /\ sent[3].body["sysparm_query"]
                     = Str("source=" \o strip(inv.schedule_sys_id.s)
                               \o "^ORDERBYDESCsys_created_on")
               /\ sent[3].body["sysparm_limit"] = Str("1")
        /\ ~LookupSucceeded => (Len(sent) = 1 /\ DOMAIN resp = EnvelopeKeys /\ ~resp.success)
        /\ (LookupSucceeded /\ upstream[2].ok) => Len(sent) = 3

\* the scan query failed after the schedule was activated: the PATCH stays
\* sent and the tool reports the failure
C25_Witness ==
    /\ Triggered
    /\ Len(sent) = 3
    /\ ActivatesSchedule(sent[2])
    /\ ~upstream[3].ok
    /\ ~resp.success

-----------------------------------------------------------------------------
(* The sequential comparison *)

\* sequential has returned a result for the scans that its query found
SequentialReported ==
    /\ Returned
    /\ inv.tool = "compare"
    /\ DOMAIN resp = EnvelopeKeys
    /\ resp.success
    /\ resp.data.kind = "sequential"

\* the i-th entry compares the i-th scan found with the one after it
ComparesNeighbours(comparison, i) ==
    /\ comparison.scan_newer.ci_count = CountsFound[i]
    /\ comparison.scan_older.ci_count = CountsFound[i + 1]
    /\ comparison.delta_ci_count = CountsFound[i] - CountsFound[i + 1]

\* C27: over n >= 2 scans, newest first, sequential returns n - 1
\* comparisons, the i-th of scan i (newer) with scan i + 1 (older) and
\* delta_ci_count = newer - older, and a trend of the first and the last
\* count only: "improving" if first > last, "degrading" if first < last,
\* else "stable"; over fewer than 2 scans it returns success with no
\* comparisons and scans_found = n.
C27_Sequential ==
    SequentialReported =>
        IF Len(CountsFound) >= 2
        THEN /\ Len(resp.data.comparisons) = Len(CountsFound) - 1
             /\ \A i \in 1..(Len(CountsFound) - 1) :
                    ComparesNeighbours(resp.data.comparisons[i], i)
             /\ resp.data.trend =
                    (IF CountsFound[1] > CountsFound[Len(CountsFound)] THEN "improving"
                     ELSE IF CountsFound[1] < CountsFound[Len(CountsFound)] THEN "degrading"
                     ELSE "stable")
        ELSE /\ resp.data.comparisons = <<>>
             /\ resp.data.scans_found = Len(CountsFound)

\* three scans whose counts rise and fall back: two comparisons, and the
\* trend of the first and the last count is "stable"
C27_Witness ==
    /\ SequentialReported
    /\ Len(CountsFound) = 3
    /\ CountsFound[1] = CountsFound[3]
    /\ CountsFound[2] > CountsFound[1]
    /\ Len(resp.data.comparisons) = 2
    /\ resp.data.trend = "stable"

-----------------------------------------------------------------------------
(* The active flag: as the record models coerce it, as the health check
   counts it *)

\* how many records a collection has
MaxActive == 2

\* the values that `active` may have on the wire
ActiveWireValues ==
    {Str("true"), Str("True"), Str("1"), Str("yes"), Str("false"), Str(" true"),
     Bool(TRUE), Bool(FALSE), IntV(1), IntV(2), IntV(0), Null, ListOf(<<Str("x")>>)}

ActiveRecord(active) ==
    [k \in {"sys_id", "name", "active"} |->
         CASE k = "sys_id" -> Str(ValidId)
           [] k = "name" -> Str("nightly")
           [] OTHER -> active]

\* the answers to the queries of _compute_health: no scans, and the same
\* records as schedules, credentials and ranges
ActiveAnswerScripts ==
    {<<Ok(ListData(<<>>)),
       Ok(ListData([i \in 1..Len(flags) |-> ActiveRecord(flags[i])])),
       Ok(ListData([i \in 1..Len(flags) |-> ActiveRecord(flags[i])])),
       Ok(ListData([i \in 1..Len(flags) |-> ActiveRecord(flags[i])])),
       UsualAnswer>> :
        flags \in SeqsUpTo(ActiveWireValues, MaxActive)}

ActiveInvocations ==
    {HealthArgs("week", FALSE),
     CredentialArgs("get", Str(ValidId), Null, Null, Null, Null, Null, Null, Null)}

\* get_discovery_health runs to its end over these records
RunHealthOfActive ==
    /\ pc = "called"
    /\ inv.tool = "health"
    /\ \E answers \in ActiveAnswerScripts :
           Returns(get_discovery_health(inv, answers), answers)

\* manage_discovery_credentials runs the get action for one of them
GetCredential ==
    /\ pc = "called"
    /\ inv.tool = "credentials"
    /\ \E active \in ActiveWireValues :
           Returns(manage_discovery_credentials(inv, Ok(RecordData(ActiveRecord(active)))),
                   <<Ok(RecordData(ActiveRecord(active)))>>)

ActiveNext ==
    \/ \E outcome \in InitOutcomes : Startup(outcome)
    \/ \E args \in ActiveInvocations : Invoke(args)
    \/ RunHealthOfActive
    \/ GetCredential

SpecActive == ToolInit /\ [][ActiveNext]_vars

\* the get action has returned the credential that DiscoveryCredential made
\* of the record
CredentialCoerced ==
    /\ Returned
    /\ inv.tool = "credentials"
    /\ DOMAIN resp = EnvelopeKeys
    /\ resp.success

\* the wire value of the record that was fetched
WireActive == upstream[1].value.rec["active"]

TrueTexts == {"true", "1", "yes"}

\* a text equal to one of TrueTexts without regard to case
IsTrueText(text) == lower(text) \in TrueTexts

\* C28 as stated: the coercion returns a native boolean as it is, true for
\* a string equal, without regard to case, to "true", "1" or "yes", and
\* false for anything else.  It is bool(value) for what is neither a bool
\* nor a str, so the number 1 gives true.
C28_Original ==
    CredentialCoerced =>
        resp.data.rec["active"] =
            Bool(IF WireActive.t = "bool" THEN WireActive.b
                 ELSE IF WireActive.t = "str" THEN IsTrueText(WireActive.s)
                 ELSE FALSE)

\* Python's truth value of a value that is neither a bool nor a str
TruthValue(value) ==
    CASE value.t = "int" -> value.n # 0
      [] value.t = "list" -> Len(value.items) > 0
      [] OTHER -> FALSE

\* C28: the coercion returns a native boolean as it is, true for a string
\* equal, without regard to case, to "true", "1" or "yes", false for any
\* other string, and Python's truth value for any other value.
C28_Coercion ==
    CredentialCoerced =>
        resp.data.rec["active"] =
            Bool(IF WireActive.t = "bool" THEN WireActive.b
                 ELSE IF WireActive.t = "str" THEN IsTrueText(WireActive.s)
                 ELSE TruthValue(WireActive))

\* the number 2 was coerced to true
C28_Witness ==
    /\ CredentialCoerced
    /\ WireActive = IntV(2)
    /\ resp.data.rec["active"] = Bool(TRUE)

\* how many of the records that the i-th query returned the record models
\* report as active
CoercedActive(i) ==
    Cardinality({n \in 1..Len(Answered(i)) : _coerce_bool(Answered(i)[n]["active"])})

\* C30 as stated: get_discovery_health counts a schedule, credential or
\* range as active exactly when the record models' coercion of its active
\* value is true.  It tests `active in ("true", True)`: "True", "1" and
\* "yes" are active for the models and inactive for the health check.
C30_Original ==
    HealthReported =>
        /\ resp.data.sub_metrics.schedule_health.active = CoercedActive(2)
        /\ resp.data.sub_metrics.credential_health.active = CoercedActive(3)
        /\ resp.data.sub_metrics.range_health.active = CoercedActive(4)

-----------------------------------------------------------------------------
(* _init_server called again: the server state over any sequence of calls *)

\* the tools that are invoked between the calls of _init_server
InitInvocations == {args \in ToolInvocations : args.tool \in {"server_info", "status"}}

InitNext ==
    \/ \E outcome \in InitOutcomes : InitServer(outcome)
    \/ \E args \in InitInvocations : Invoke(args)
    \/ RunTool

SpecInit == ToolInit /\ [][InitNext]_vars

\* _init_server has been called at least once: every call sets _config or
\* _config_error
Initialized == config \/ client \/ config_error # Null

\* ready: configuration and client set, no configuration error recorded
Ready == config /\ client /\ config_error = Null

\* degraded: no client, and a configuration error recorded
Degraded == ~client /\ config_error # Null

\* C29 as stated: after any sequence of calls of _init_server the server is
\* ready or degraded, and get_client raises CLIENT_NOT_CONFIGURED exactly
\* when no client is set.  _init_server never clears _config_error or
\* _client: a failed call followed by a successful one leaves the client set
\* and the error recorded.
C29_Original ==
    /\ Initialized => (Ready \/ Degraded)
    /\ get_client.ok <=> client
    /\ ~client => get_client.err.error_code = "CLIENT_NOT_CONFIGURED"

====
